---- MODULE Spec2Model ----
(***************************************************************************)
(* The vochain indexer (src/vochain/indexer/indexer.go) as a state machine. *)
(*                                                                         *)
(* Three threads act on one Indexer value:                                  *)
(*   - the chain application's callback thread (the On... callbacks,        *)
(*     Commit and Rollback), one call at a time;                            *)
(*   - the goroutine running AfterSyncBootstrap;                            *)
(*   - the goroutine running ReindexBlocks.                                 *)
(* A section of code that runs under blockMu from its first to its last     *)
(* statement is one atomic action; AfterSyncBootstrap is split where it     *)
(* has taken the lock, and OnVote touches votePool before it takes the      *)
(* lock, so that part is a step of its own.                                 *)
(*                                                                         *)
(* The sqlite store is two values: db, what is committed (what the          *)
(* read-only pool sees), and txdb, the writer's view inside blockTx.        *)
(***************************************************************************)
EXTENDS Integers, Sequences, FiniteSets, TLC

VARIABLES
    synced,                     \* App.IsSynced() / WaitUntilSynced has fired
    appHeight,                  \* App.Height(): the height of the block in progress
    chainC,                     \* chain state, committed view
    chainW,                     \* chain state, working (uncommitted) view
    ignoreLiveResults,          \* Indexer.ignoreLiveResults
    votePool,                   \* Indexer.votePool: pid -> nullifier -> vote
    blockUpdateProcs,           \* Indexer.blockUpdateProcs
    blockUpdateProcVoteCounts,  \* Indexer.blockUpdateProcVoteCounts
    liveResultsProcs,           \* Indexer.liveResultsProcs
    blockMu,                    \* holder of Indexer.blockMu between steps
    blockTx,                    \* Indexer.blockTx # nil
    txdb,                       \* the rows as seen inside blockTx
    db,                         \* the committed rows
    cpc,                        \* position of the callback thread
    curVote,                    \* argument of the OnVote call in progress
    calls,                      \* callbacks delivered so far, OnProcess apart
    bootPc,                     \* position of AfterSyncBootstrap
    reidxPc,                    \* position of ReindexBlocks
    lastOp,                     \* the last call the callback thread completed
    preBlock,                   \* callback-written tables as committed when the block began
    txWrites,                   \* blockTx holds writes of callbacks of the block in progress
    blockStore,                 \* App.Node.BlockStore(): height -> transactions of the block
    expectBackupRestore,        \* Options.ExpectBackupRestore
    dbFile,                     \* the file at Indexer.dbPath
    readWriteDB,                \* Indexer.readWriteDB # nil
    opens,                      \* times the database was opened by this Indexer
    startPc,                    \* New / RestoreBackup: "new", "ready", "failed" or "panic"
    listed,                     \* what the last listing operation returned
    tree,                       \* TestSnapshot: tree
    tree2,                      \* TestSnapshot: tree2, the snapshot of tree
    replay,                     \* ReindexBlocks: the height of its loop and what blockTx holds
    zk                          \* the circuit files in LocalDir and what LoadZkCircuit returned

vars == <<synced, appHeight, chainC, chainW, ignoreLiveResults, votePool,
          blockUpdateProcs, blockUpdateProcVoteCounts, liveResultsProcs,
          blockMu, blockTx, txdb, db, cpc, curVote, calls, bootPc, reidxPc,
          lastOp, preBlock, txWrites, blockStore, expectBackupRestore, dbFile,
          readWriteDB, opens, startPc, listed, tree, tree2, replay, zk>>

----------------------------------------------------------------------------
(* Bounds of the model and the inputs the environment draws from.          *)

MaxHeight == 2

MaxCalls == 1

MaxTallyCalls == 2
\* ... delivered to an election that is closed while it receives ballots.
MaxFinalCalls == 3

Pids == {"p1"}

Nullifiers == {"n1", "n2"}

Overwrites == {0, 1}

VoteOpts == [maxCount |-> 2, maxValue |-> 1]

Packages == {<<1, 0>>}

TallyPackages == {<<1, 0>>, <<0, 1>>, <<2, 0>>}

\* Two processes, and a valid and an invalid package, for the blocks in which
\* one record fails.
DropPids == {"p1", "p2"}

DropPackages == {<<1, 0>>, <<2, 0>>}

WeightOf == [n \in Nullifiers |-> IF n = "n1" THEN 5 ELSE 2]

\* The time of the block of height h, and what a lookup in the block store may return.
BlockTime(h) == 10 * h

BlockStoreSkews == {0, 1}

Addresses == {"a1"}

Balances == {7}

ReindexCommitEvery == 10000

OptimizeEvery == 1000

BlockStoreBase == 1
\* The transactions a block of the block store can hold, and how many of them.
Tx(type, n) == [type |-> type, pid |-> "p1", nullifier |-> n]
BlockTxs ==
    {Tx("process", "n1"), Tx("vote", "n1"), Tx("setAccount", "n1"), Tx("transfer", "n1"),
     Tx("spend", "n1")}
MaxBlockTxs == 2
\* Calls of RestoreBackup on one Indexer.
MaxRestores == 2
\* The largest limit and offset passed to a listing operation.
MaxLimit == 2
\* Blocks and ballots of an election followed block by block.
MaxElectionHeight == 4
MaxElectionCalls == 3
\* The largest key added to a tree.
MaxTreeKey == 3
\* The transactions of a block whose order is kept.
MaxOrderedTxs == 2

----------------------------------------------------------------------------
(* Helpers.                                                                *)

EmptyFn == [x \in {} |-> 0]

Put(f, k, v) == [x \in (DOMAIN f) \cup {k} |-> IF x = k THEN v ELSE f[x]]

RECURSIVE SumWeights(_)
SumWeights(S) ==
    IF S = {} THEN 0
    ELSE LET x == CHOOSE y \in S : TRUE
         IN x.weight + SumWeights(S \ {x})

----------------------------------------------------------------------------
(* Results aggregation (vochain/results, reached through addLiveVote and    *)
(* commitVotesUnsafe).                                                      *)

NewEmptyVotes ==
    [q \in 1..VoteOpts.maxCount |-> [c \in 1..(VoteOpts.maxValue + 1) |-> 0]]

ZeroResults == [votes |-> NewEmptyVotes, weight |-> 0]

ValidPackage(pkg) ==
    /\ Len(pkg) = VoteOpts.maxCount
    /\ \A i \in 1..Len(pkg) : pkg[i] >= 0 /\ pkg[i] <= VoteOpts.maxValue

AddVote(res, pkg, w) ==
    [votes  |-> [q \in 1..VoteOpts.maxCount |->
                    [c \in 1..(VoteOpts.maxValue + 1) |->
                        res.votes[q][c] + (IF pkg[q] + 1 = c THEN w ELSE 0)]],
     weight |-> res.weight + w]

\* addLiveVote: the error return and the accumulator after the call.
AddLiveVote(pkg, w, res) ==
    IF ValidPackage(pkg)
    THEN [err |-> FALSE, res |-> AddVote(res, pkg, w)]
    ELSE [err |-> TRUE, res |-> res]

ResultsAdd(a, b) ==
    [votes  |-> [q \in 1..VoteOpts.maxCount |->
                    [c \in 1..(VoteOpts.maxValue + 1) |-> a.votes[q][c] + b.votes[q][c]]],
     weight |-> a.weight + b.weight]

ResultsSub(a, b) ==
    [votes  |-> [q \in 1..VoteOpts.maxCount |->
                    [c \in 1..(VoteOpts.maxValue + 1) |-> a.votes[q][c] - b.votes[q][c]]],
     weight |-> a.weight - b.weight]

----------------------------------------------------------------------------
(* The store: tables and the queries used on them.                          *)

EmptyDB ==
    [procs     |-> EmptyFn,
     votes     |-> {},
     blocks    |-> {},
     accounts  |-> EmptyFn,
     transfers |-> {},
     fees      |-> {},
     txs       |-> EmptyFn]

NewProcessRow ==
    [results      |-> ZeroResults,
     rheight      |-> 0,
     voteCount    |-> 0,
     status       |-> "READY",
     finalResults |-> FALSE]

\* CreateProcess: a row with zeroed results; a second insert of the id fails.
CreateProcess(d, pid) ==
    IF pid \in DOMAIN d.procs THEN d
    ELSE [d EXCEPT !.procs = Put(@, pid, NewProcessRow)]

\* CreateVote: one more row in the votes table.
CreateVote(d, row) == [d EXCEPT !.votes = @ \cup {row}]

\* CreateBlock: insert, or replace the row of the same height.
CreateBlock(d, b) ==
    [d EXCEPT !.blocks = {r \in @ : r.height # b.height} \cup {b}]

\* CreateAccount: the account row is replaced in place.
CreateAccount(d, addr, acc) == [d EXCEPT !.accounts = Put(@, addr, acc)]

CreateTokenTransfer(d, row) == [d EXCEPT !.transfers = @ \cup {row}]

CreateTokenFee(d, row) == [d EXCEPT !.fees = @ \cup {row}]

\* ComputeProcessVoteCount: COUNT(DISTINCT nullifier) over the process's vote rows.
CountDistinctNullifiers(d, pid) ==
    Cardinality({r.nullifier : r \in {x \in d.votes : x.pid = pid}})

ComputeProcessVoteCount(d, pid) ==
    IF pid \in DOMAIN d.procs
    THEN [d EXCEPT !.procs[pid].voteCount = CountDistinctNullifiers(d, pid)]
    ELSE d

\* UpdateProcessResults: the results triple of a row whose results are not final.
UpdateProcessResults(d, pid, res, h) ==
    IF pid \in DOMAIN d.procs /\ ~d.procs[pid].finalResults
    THEN [d EXCEPT !.procs[pid].results = res, !.procs[pid].rheight = h]
    ELSE d

\* UpdateProcessResultByID: the results of the row with this id.
UpdateProcessResultByID(d, pid, res) ==
    IF pid \in DOMAIN d.procs
    THEN [d EXCEPT !.procs[pid].results = res]
    ELSE d

\* GetProcessIDsByFinalResults(false)
GetProcessIDsByFinalResults(d) ==
    {p \in DOMAIN d.procs : ~d.procs[p].finalResults}

\* The tables the Event Sink callbacks write rows into.
CallbackTables(d) ==
    [procIds   |-> DOMAIN d.procs,
     votes     |-> d.votes,
     accounts  |-> d.accounts,
     transfers |-> d.transfers,
     fees      |-> d.fees]

----------------------------------------------------------------------------
(* The chain application's state, as the indexer reads it.                  *)

EmptyChain == [procs |-> EmptyFn, votes |-> EmptyFn]

\* State.Vote(pid, nullifier, committed=true)
HasStateVote(c, pid, n) == <<pid, n>> \in DOMAIN c.votes

StateVote(c, pid, n) == c.votes[<<pid, n>>]

\* State.IterateVotes(pid, committed=true, ...)
StateVotesOf(c, pid) == {c.votes[k] : k \in {x \in DOMAIN c.votes : x[1] = pid}}

NoVote ==
    [pid |-> "p1", nullifier |-> "n1", overwrites |-> 0, weight |-> 0,
     pkg |-> <<>>, height |-> 0]

VotesOf(pids, pkgs, h) ==
    {[pid |-> p, nullifier |-> n, overwrites |-> o, weight |-> WeightOf[n],
      pkg |-> k, height |-> h] :
        p \in pids, n \in Nullifiers, o \in Overwrites, k \in pkgs}

VotesWith(pkgs, h) == VotesOf(Pids, pkgs, h)

Votes(h) == VotesWith(Packages, h)

TallyVotes(h) == VotesWith(TallyPackages, h)

NoOp == [op |-> "none", height |-> 0, found |-> FALSE, txOk |-> FALSE, err |-> FALSE]

CallbackOp == [op |-> "callback", height |-> 0, found |-> FALSE, txOk |-> FALSE, err |-> FALSE]

----------------------------------------------------------------------------
\* The file at dbPath: whether it exists, where its bytes come from and whether
\* its schema has every migration applied.
\* "found" is the schema the file had when the database was opened on it.
NoFile == [exists |-> FALSE, origin |-> "none", schema |-> "none", found |-> "unopened"]

CreatedFile == [exists |-> TRUE, origin |-> "created", schema |-> "latest", found |-> "none"]

\* A block store whose blocks hold no transaction.
NoTxs == [h \in 1..MaxHeight |-> {}]

\* No listing operation was called yet.
NoListing == [op |-> "none", rows |-> <<>>, total |-> 0, err |-> "nil", queried |-> FALSE]

\* NewTree(database, 100, HashFunctionPoseidon): a tree without leaves, as the
\* function from its keys to their values.
NewTree == EmptyFn

\* The loop of ReindexBlocks has not begun: height is the height the loop is
\* at, head is BlockStore().Height(), and run is the number of consecutive
\* heights, the last one processed included, whose writes blockTx holds.
NoReplay == [height |-> 0, head |-> 0, run |-> 0]

\* A nil byte slice, the result of a read or a download that failed, and the
\* contents of a file.
Nil == <<>>
Artifacts == {"ProvingKey", "VerificationKey", "Wasm"}

\* No *ZkCircuit: the nil that LoadZkCircuit returns with an error.
NoCircuit == [isNil |-> TRUE]

\* LocalDir holds no circuit file and LoadZkCircuit was not called.
NoZk ==
    [local   |-> [a \in Artifacts |-> Nil],
     called  |-> FALSE,
     fetched |-> FALSE,
     remote  |-> [a \in Artifacts |-> Nil],
     config  |-> [a \in Artifacts |-> Nil],
     circuit |-> NoCircuit,
     err     |-> FALSE]

\* tree2 before tree.Snapshot is called.
NoTree == [taken |-> FALSE]

\* New, lines 115-126: the fields of the Indexer value, over an empty database;
\* the chain has delivered nothing yet.
InitFields ==
    /\ chainC = EmptyChain
    /\ chainW = EmptyChain
    /\ votePool = EmptyFn
    /\ blockUpdateProcs = {}
    /\ blockUpdateProcVoteCounts = {}
    /\ liveResultsProcs = {}
    /\ blockMu = "free"
    /\ blockTx = FALSE
    /\ txdb = EmptyDB
    /\ db = EmptyDB
    /\ cpc = "idle"
    /\ curVote = NoVote
    /\ calls = 0
    /\ bootPc = "idle"
    /\ lastOp = NoOp
    /\ preBlock = CallbackTables(EmptyDB)
    /\ txWrites = FALSE
    /\ listed = NoListing
    /\ tree = NewTree
    /\ tree2 = NoTree
    /\ replay = NoReplay
    /\ zk = NoZk

\* New has returned: the database was created and opened, and ReindexBlocks
\* waits for the chain to be synced.
InitIndexer ==
    /\ InitFields
    /\ appHeight = 1
    /\ reidxPc = "idle"
    /\ blockStore = NoTxs
    /\ expectBackupRestore = FALSE
    /\ dbFile = CreatedFile
    /\ readWriteDB = TRUE
    /\ opens = 1
    /\ startPc = "ready"

Init ==
    /\ synced = FALSE
    /\ ignoreLiveResults \in BOOLEAN
    /\ InitIndexer

----------------------------------------------------------------------------
(* blockTxQueries: the writer's view, with blockTx begun if it was nil.     *)

BlockTxQueries == IF blockTx THEN txdb ELSE db

\* blockTx.Commit(): the rows become the committed ones unless the store fails.
TxCommit(t, ok) == IF ok THEN t ELSE db

----------------------------------------------------------------------------
(* The callback thread.                                                     *)

\* The chain runs for the blocks of its block store.
LastHeight == Cardinality(DOMAIN blockStore)

CallbackEnabled ==
    /\ cpc = "idle"
    /\ appHeight <= LastHeight

Locked == blockMu = "free"

UnchangedThreads == UNCHANGED <<bootPc, reidxPc>>

UnchangedStart ==
    UNCHANGED <<blockStore, expectBackupRestore, dbFile, readWriteDB, opens, startPc>>

\* The listing operations and the trees are apart from the write path.
UnchangedOther == UNCHANGED <<listed, tree, tree2, replay, zk>>

UnchangedEnv == UNCHANGED <<synced, appHeight, chainC, ignoreLiveResults>>

\* OnProcess -> newEmptyProcess (under blockMu), then addProcessToLiveResults.
\* When newEmptyProcess fails (rowOk = FALSE) the error is logged, no row is
\* written, and the process still joins the live-results set.
OnProcessWith(pid, rowOk) ==
    /\ cpc = "idle"
    /\ appHeight <= LastHeight
    /\ Locked
    /\ pid \notin DOMAIN chainW.procs
    /\ chainW' = [chainW EXCEPT !.procs = Put(@, pid, "READY")]
    /\ txdb' = IF rowOk THEN CreateProcess(BlockTxQueries, pid) ELSE BlockTxQueries
    /\ blockTx' = TRUE
    /\ txWrites' = (txWrites \/ rowOk)
    /\ liveResultsProcs' = IF synced THEN liveResultsProcs \cup {pid} ELSE liveResultsProcs
    /\ lastOp' = CallbackOp
    /\ UNCHANGED <<votePool, blockUpdateProcs, blockUpdateProcVoteCounts, blockMu, db,
                   cpc, curVote, calls, preBlock>>
    /\ UnchangedThreads
    /\ UnchangedStart
    /\ UnchangedOther
    /\ UnchangedEnv

OnProcess(pid) == OnProcessWith(pid, TRUE)

\* OnVote, lines 700-713: the vote pool, before blockMu is taken.
PoolPut(pool, vote) ==
    Put(pool, vote.pid,
        Put(IF vote.pid \in DOMAIN pool THEN pool[vote.pid] ELSE EmptyFn,
            vote.nullifier, vote))

\* A variant that pools every ballot.
OnVotePoolAlways(vote) ==
    /\ CallbackEnabled
    /\ vote.pid \in DOMAIN chainW.procs
    /\ chainW' = [chainW EXCEPT !.votes = Put(@, <<vote.pid, vote.nullifier>>, vote)]
    /\ votePool' = PoolPut(votePool, vote)
    /\ cpc' = "OnVote"
    /\ curVote' = vote
    /\ UNCHANGED <<blockUpdateProcs, blockUpdateProcVoteCounts, liveResultsProcs, blockMu,
                   blockTx, txdb, db, calls, lastOp, preBlock, txWrites>>
    /\ UnchangedThreads
    /\ UnchangedStart
    /\ UnchangedOther
    /\ UnchangedEnv

OnVotePool(vote) ==
    /\ CallbackEnabled
    /\ vote.pid \in DOMAIN chainW.procs
    /\ chainW' = [chainW EXCEPT !.votes = Put(@, <<vote.pid, vote.nullifier>>, vote)]
    /\ votePool' = IF ~ignoreLiveResults /\ vote.pid \in liveResultsProcs
                   THEN PoolPut(votePool, vote)
                   ELSE votePool
    /\ cpc' = "OnVote"
    /\ curVote' = vote
    /\ UNCHANGED <<blockUpdateProcs, blockUpdateProcVoteCounts, liveResultsProcs, blockMu,
                   blockTx, txdb, db, calls, lastOp, preBlock, txWrites>>
    /\ UnchangedThreads
    /\ UnchangedStart
    /\ UnchangedOther
    /\ UnchangedEnv

\* A variant that keeps the vote row for the processes with live results only.
OnVoteRowsLiveOnly(t, vote) ==
    IF vote.pid \in liveResultsProcs THEN CreateVote(t, vote) ELSE t

\* OnVote, lines 715-739: the vote row and the vote-count mark, under blockMu.
OnVoteRows(t, vote) == CreateVote(t, vote)

OnVoteWrite ==
    /\ cpc = "OnVote"
    /\ Locked
    /\ txdb' = OnVoteRows(BlockTxQueries, curVote)
    /\ blockTx' = TRUE
    /\ txWrites' = TRUE
    /\ blockUpdateProcVoteCounts' = blockUpdateProcVoteCounts \cup {curVote.pid}
    /\ cpc' = "idle"
    /\ curVote' = NoVote
    /\ calls' = calls + 1
    /\ lastOp' = CallbackOp
    /\ UNCHANGED <<chainW, votePool, blockUpdateProcs, liveResultsProcs, blockMu, db, preBlock>>
    /\ UnchangedThreads
    /\ UnchangedStart
    /\ UnchangedOther
    /\ UnchangedEnv

\* The callbacks that only mark a process for update at commit time.
MarkProcess(pid) ==
    /\ CallbackEnabled
    /\ Locked
    /\ pid \in DOMAIN chainW.procs
    /\ blockUpdateProcs' = blockUpdateProcs \cup {pid}
    /\ calls' = calls + 1
    /\ lastOp' = CallbackOp
    /\ UNCHANGED <<votePool, blockUpdateProcVoteCounts, liveResultsProcs, blockMu, blockTx,
                   txdb, db, cpc, curVote, preBlock, txWrites>>
    /\ UnchangedThreads
    /\ UnchangedStart
    /\ UnchangedOther
    /\ UnchangedEnv

OnCancel(pid) == MarkProcess(pid) /\ UNCHANGED chainW

OnProcessKeys(pid) == MarkProcess(pid) /\ UNCHANGED chainW

OnProcessStatusChange(pid, status) ==
    /\ MarkProcess(pid)
    /\ chainW' = [chainW EXCEPT !.procs[pid] = status]

OnProcessDurationChange(pid) == MarkProcess(pid) /\ UNCHANGED chainW

\* OnRevealKeys returns before marking when the process or its key index is missing.
OnRevealKeys(pid, keyIndexOk) ==
    /\ UNCHANGED chainW
    /\ IF keyIndexOk
       THEN MarkProcess(pid)
       ELSE /\ CallbackEnabled
            /\ pid \in DOMAIN chainW.procs
            /\ calls' = calls + 1
            /\ lastOp' = CallbackOp
            /\ UNCHANGED <<votePool, blockUpdateProcs, blockUpdateProcVoteCounts,
                           liveResultsProcs, blockMu, blockTx, txdb, db, cpc, curVote,
                           preBlock, txWrites>>
            /\ UnchangedThreads
            /\ UnchangedStart
            /\ UnchangedOther
            /\ UnchangedEnv

\* OnProcessResults: the chain has published the results of the process.
OnProcessResults(pid) ==
    /\ MarkProcess(pid)
    /\ chainW' = [chainW EXCEPT !.procs[pid] = "RESULTS"]

OnCensusUpdate(pid) == MarkProcess(pid) /\ UNCHANGED chainW

OnProcessesStart(pids) ==
    /\ CallbackEnabled
    /\ Locked
    /\ pids \subseteq DOMAIN chainW.procs
    /\ blockUpdateProcs' = blockUpdateProcs \cup pids
    /\ calls' = calls + 1
    /\ lastOp' = CallbackOp
    /\ UNCHANGED <<chainW, votePool, blockUpdateProcVoteCounts, liveResultsProcs, blockMu,
                   blockTx, txdb, db, cpc, curVote, preBlock, txWrites>>
    /\ UnchangedThreads
    /\ UnchangedStart
    /\ UnchangedOther
    /\ UnchangedEnv

\* The callbacks that write one row.
WriteRow(t) ==
    /\ CallbackEnabled
    /\ Locked
    /\ txdb' = t
    /\ blockTx' = TRUE
    /\ txWrites' = TRUE
    /\ calls' = calls + 1
    /\ lastOp' = CallbackOp
    /\ UNCHANGED <<chainW, votePool, blockUpdateProcs, blockUpdateProcVoteCounts,
                   liveResultsProcs, blockMu, db, cpc, curVote, preBlock>>
    /\ UnchangedThreads
    /\ UnchangedStart
    /\ UnchangedOther
    /\ UnchangedEnv

OnSetAccount(addr, acc) == WriteRow(CreateAccount(BlockTxQueries, addr, acc))

OnTransferTokens(txHash) ==
    WriteRow(CreateTokenTransfer(BlockTxQueries, [txHash |-> txHash, height |-> appHeight]))

OnSpendTokens(addr, txType) ==
    WriteRow(CreateTokenFee(BlockTxQueries,
                            [from |-> addr, txType |-> txType, height |-> appHeight]))

----------------------------------------------------------------------------
(* Commit(height).                                                          *)

\* A variant that inserts the block row without replacing the row of its height.
CommitIndexBlockInsert(t, found, b) ==
    IF found THEN [t EXCEPT !.blocks = @ \cup {b}] ELSE t

\* Commit, lines 532-544: the row of the new block, when the lookup finds one.
CommitIndexBlock(t, found, b) == IF found THEN CreateBlock(t, b) ELSE t

\* updateProcess: the row's fields re-read from the chain state; a process whose
\* results the chain has published gets its tally marked final.
UpdateProcess(t, c, pid) ==
    IF pid \in DOMAIN t.procs /\ pid \in DOMAIN c.procs
    THEN [t EXCEPT !.procs[pid].status = c.procs[pid],
                   !.procs[pid].finalResults = (@ \/ c.procs[pid] = "RESULTS")]
    ELSE t

RECURSIVE UpdateProcesses(_, _, _)
UpdateProcesses(t, c, pids) ==
    IF pids = {} THEN t
    ELSE LET p == CHOOSE x \in pids : TRUE
         IN UpdateProcesses(UpdateProcess(t, c, p), c, pids \ {p})

ZeroAcc ==
    [added |-> ZeroResults, subtracted |-> ZeroResults, newVotes |-> 0, overwritedVotes |-> 0]

\* A variant in which a ballot that fails validation discards what the process
\* has accumulated in this block.
TallyVoteAbort(c, v, acc) ==
    IF v.overwrites > 0 /\ HasStateVote(c, v.pid, v.nullifier)
    THEN LET previousVote == StateVote(c, v.pid, v.nullifier)
             sub == AddLiveVote(previousVote.pkg, previousVote.weight, acc.subtracted)
             add == AddLiveVote(v.pkg, v.weight, acc.added)
         IN  IF v.overwrites <= previousVote.overwrites THEN acc
             ELSE IF sub.err \/ add.err THEN ZeroAcc
             ELSE [added           |-> add.res,
                   subtracted      |-> sub.res,
                   newVotes        |-> acc.newVotes,
                   overwritedVotes |-> acc.overwritedVotes + 1]
    ELSE LET add == AddLiveVote(v.pkg, v.weight, acc.added)
         IN  IF add.err THEN ZeroAcc
             ELSE [acc EXCEPT !.added = add.res, !.newVotes = @ + 1]

\* A variant that accepts an overwrite whose counter equals the previous one.
TallyVoteNotStrict(c, v, acc) ==
    IF v.overwrites > 0 /\ HasStateVote(c, v.pid, v.nullifier)
    THEN LET previousVote == StateVote(c, v.pid, v.nullifier)
             sub == AddLiveVote(previousVote.pkg, previousVote.weight, acc.subtracted)
             add == AddLiveVote(v.pkg, v.weight, acc.added)
         IN  IF v.overwrites < previousVote.overwrites THEN acc
             ELSE IF sub.err THEN acc
             ELSE [added           |-> add.res,
                   subtracted      |-> sub.res,
                   newVotes        |-> acc.newVotes,
                   overwritedVotes |-> acc.overwritedVotes + 1]
    ELSE LET add == AddLiveVote(v.pkg, v.weight, acc.added)
         IN  [acc EXCEPT !.added = add.res, !.newVotes = @ + 1]

\* A variant that looks up the committed ballot of every pooled ballot.
TallyVoteReadsAlways(c, v, acc) ==
    IF HasStateVote(c, v.pid, v.nullifier)
    THEN LET previousVote == StateVote(c, v.pid, v.nullifier)
             sub == AddLiveVote(previousVote.pkg, previousVote.weight, acc.subtracted)
             add == AddLiveVote(v.pkg, v.weight, acc.added)
         IN  IF v.overwrites < previousVote.overwrites THEN acc
             ELSE IF sub.err THEN acc
             ELSE [added           |-> add.res,
                   subtracted      |-> sub.res,
                   newVotes        |-> acc.newVotes,
                   overwritedVotes |-> acc.overwritedVotes + 1]
    ELSE LET add == AddLiveVote(v.pkg, v.weight, acc.added)
         IN  [acc EXCEPT !.added = add.res, !.newVotes = @ + 1]

\* A variant that skips an overwrite whose previous ballot cannot be read.
TallyVoteSkipUnread(c, v, acc) ==
    IF v.overwrites > 0 /\ HasStateVote(c, v.pid, v.nullifier)
    THEN LET previousVote == StateVote(c, v.pid, v.nullifier)
             sub == AddLiveVote(previousVote.pkg, previousVote.weight, acc.subtracted)
             add == AddLiveVote(v.pkg, v.weight, acc.added)
         IN  IF v.overwrites <= previousVote.overwrites THEN acc
             ELSE IF sub.err THEN acc
             ELSE [added           |-> add.res,
                   subtracted      |-> sub.res,
                   newVotes        |-> acc.newVotes,
                   overwritedVotes |-> acc.overwritedVotes + 1]
    ELSE IF v.overwrites > 0 THEN acc
    ELSE LET add == AddLiveVote(v.pkg, v.weight, acc.added)
         IN  [acc EXCEPT !.added = add.res, !.newVotes = @ + 1]

\* Commit, lines 584-628: one pooled vote against the committed chain state c.
TallyVote(c, v, acc) ==
    IF v.overwrites > 0 /\ HasStateVote(c, v.pid, v.nullifier)
    THEN LET previousVote == StateVote(c, v.pid, v.nullifier)
             sub == AddLiveVote(previousVote.pkg, previousVote.weight, acc.subtracted)
             add == AddLiveVote(v.pkg, v.weight, acc.added)
         IN  IF v.overwrites <= previousVote.overwrites THEN acc
             ELSE IF sub.err THEN acc
             ELSE [added           |-> add.res,
                   subtracted      |-> sub.res,
                   newVotes        |-> acc.newVotes,
                   overwritedVotes |-> acc.overwritedVotes + 1]
    ELSE LET add == AddLiveVote(v.pkg, v.weight, acc.added)
         IN  [acc EXCEPT !.added = add.res, !.newVotes = @ + 1]

RECURSIVE TallyPool(_, _, _)
TallyPool(c, vs, acc) ==
    IF vs = {} THEN acc
    ELSE LET v == CHOOSE x \in vs : TRUE
         IN TallyPool(c, vs \ {v}, TallyVote(c, v, acc))

\* A variant that adds the new ballots and never takes the replaced ones off.
CommitVotesNoSubtract(t, pid, cur, added, subtracted, h) ==
    UpdateProcessResults(t, pid, ResultsAdd(cur, added), h)

\* commitVotesUnsafe: results := current + added - subtracted, at height h.
CommitVotesUnsafe(t, pid, cur, added, subtracted, h) ==
    UpdateProcessResults(t, pid, ResultsAdd(ResultsSub(cur, subtracted), added), h)

\* Commit, lines 561-633, for one process of the pool.
CommitProcessVotes(t, c, pid, votesByNullifier, h) ==
    IF pid \notin DOMAIN t.procs THEN t
    ELSE LET acc == TallyPool(c, {votesByNullifier[n] : n \in DOMAIN votesByNullifier},
                              ZeroAcc)
         IN  CommitVotesUnsafe(t, pid, t.procs[pid].results, acc.added, acc.subtracted, h)

RECURSIVE CommitVotePool(_, _, _, _, _)
CommitVotePool(t, c, pool, pids, h) ==
    IF pids = {} THEN t
    ELSE LET p == CHOOSE x \in pids : TRUE
         IN CommitVotePool(CommitProcessVotes(t, c, p, pool[p], h), c, pool, pids \ {p}, h)

RECURSIVE ComputeVoteCounts(_, _)
ComputeVoteCounts(t, pids) ==
    IF pids = {} THEN t
    ELSE LET p == CHOOSE x \in pids : TRUE
         IN ComputeVoteCounts(ComputeProcessVoteCount(t, p), pids \ {p})

\* Commit, lines 593-600: the committed chain state as State.Vote(pid,
\* nullifier, true) reads it when the reads of the nullifiers in failed return
\* an error: previousVote stays nil for them, as for a ballot that is absent.
ReadableState(c, failed) ==
    [c EXCEPT !.votes = [k \in {x \in DOMAIN c.votes : x[2] \notin failed} |-> c.votes[k]]]

\* The rows of blockTx when Commit reaches blockTx.Commit(), the reads of the
\* previous ballots of the nullifiers in failed having returned an error.
CommitRowsRead(found, b, failed) ==
    LET t1 == CommitIndexBlock(BlockTxQueries, found, b)
        t2 == UpdateProcesses(t1, chainW, blockUpdateProcs)
        t3 == CommitVotePool(t2, ReadableState(chainC, failed), votePool, DOMAIN votePool,
                             appHeight)
    IN  ComputeVoteCounts(t3, blockUpdateProcVoteCounts)

\* The rows when every previous ballot can be read.
CommitRows(found, b) == CommitRowsRead(found, b, {})

\* A variant that returns the optimizer's error at every height.
CommitErrorAtAnyHeight(height, optimizeOk) == ~optimizeOk

\* Commit, lines 646-665: the error Commit returns. A failed blockTx.Commit() is
\* logged; only a failed "PRAGMA optimize", run every OptimizeEvery blocks, is returned.
CommitError(height, optimizeOk) == height % OptimizeEvery = 0 /\ ~optimizeOk

\* Commit(), the reads of the previous ballots of the nullifiers in failed
\* having returned an error.
CommitRead(found, txOk, failed) ==
    /\ cpc = "idle"
    /\ appHeight <= LastHeight
    /\ Locked
    /\ db' = TxCommit(CommitRowsRead(found, [height |-> appHeight, time |-> BlockTime(appHeight)],
                                     failed), txOk)
    /\ txdb' = db'
    /\ blockTx' = FALSE
    /\ txWrites' = FALSE
    /\ votePool' = EmptyFn
    /\ blockUpdateProcs' = {}
    /\ blockUpdateProcVoteCounts' = {}
    /\ chainC' = chainW
    /\ appHeight' = appHeight + 1
    /\ \E optimizeOk \in BOOLEAN :
          lastOp' = [op |-> "Commit", height |-> appHeight, found |-> found, txOk |-> txOk,
                     err |-> CommitError(appHeight, optimizeOk), unread |-> failed]
    /\ preBlock' = CallbackTables(db')
    /\ UNCHANGED <<synced, chainW, ignoreLiveResults, liveResultsProcs, blockMu, cpc, curVote,
                   calls>>
    /\ UnchangedThreads
    /\ UnchangedStart
    /\ UnchangedOther

\* Commit() when every previous ballot can be read.
Commit(found, txOk) == CommitRead(found, txOk, {})

\* A variant that forgets the processes marked for a vote count.
RollbackKeepsVoteCounts ==
    /\ cpc = "idle"
    /\ appHeight <= LastHeight
    /\ Locked
    /\ votePool' = EmptyFn
    /\ blockUpdateProcs' = {}
    /\ txdb' = db
    /\ blockTx' = FALSE
    /\ txWrites' = FALSE
    /\ chainW' = chainC
    /\ lastOp' = [op |-> "Rollback", height |-> appHeight, found |-> FALSE, txOk |-> FALSE,
                  err |-> FALSE]
    /\ UNCHANGED <<synced, appHeight, chainC, ignoreLiveResults, liveResultsProcs, blockMu,
                   blockUpdateProcVoteCounts, db, cpc, curVote, calls, preBlock>>
    /\ UnchangedThreads
    /\ UnchangedStart
    /\ UnchangedOther

\* Rollback().
Rollback ==
    /\ cpc = "idle"
    /\ appHeight <= LastHeight
    /\ Locked
    /\ votePool' = EmptyFn
    /\ blockUpdateProcs' = {}
    /\ blockUpdateProcVoteCounts' = {}
    /\ txdb' = db
    /\ blockTx' = FALSE
    /\ txWrites' = FALSE
    /\ chainW' = chainC
    /\ lastOp' = [op |-> "Rollback", height |-> appHeight, found |-> FALSE, txOk |-> FALSE,
                  err |-> FALSE]
    /\ UNCHANGED <<synced, appHeight, chainC, ignoreLiveResults, liveResultsProcs, blockMu,
                   db, cpc, curVote, calls, preBlock>>
    /\ UnchangedThreads
    /\ UnchangedStart
    /\ UnchangedOther

----------------------------------------------------------------------------
(* AfterSyncBootstrap.                                                      *)

RECURSIVE RecountVotes(_, _)
RecountVotes(vs, res) ==
    IF vs = {} THEN res
    ELSE LET v == CHOOSE x \in vs : TRUE
         IN RecountVotes(vs \ {v}, AddLiveVote(v.pkg, v.weight, res).res)

\* AfterSyncBootstrap, lines 361-422, for one process: the rows and whether
\* the process joins the live-results set. The stored results are zeroed first;
\* when reading the ballots from the chain state or storing the recount fails
\* (recountOk = FALSE) the loop moves on to the next process.
BootstrapProcess(t, p, recountOk) ==
    IF p \notin DOMAIN db.procs
    THEN [t |-> t, live |-> FALSE]
    ELSE LET t1 == UpdateProcessResultByID(t, p, ZeroResults)
             vs == StateVotesOf(chainC, p)
         IN  IF vs = {} \/ ~recountOk
             THEN [t |-> t1, live |-> FALSE]
             ELSE [t    |-> CommitVotesUnsafe(t1, p, ZeroResults,
                                              RecountVotes(vs, ZeroResults), ZeroResults,
                                              appHeight),
                   live |-> TRUE]

RECURSIVE BootstrapRows(_, _, _)
BootstrapRows(t, pids, recountOk) ==
    IF pids = {} THEN t
    ELSE LET p == CHOOSE x \in pids : TRUE
         IN BootstrapRows(BootstrapProcess(t, p, recountOk).t, pids \ {p}, recountOk)

BootstrapLive(t, pids, recountOk) == {p \in pids : BootstrapProcess(t, p, recountOk).live}

\* A variant that recovers every process of the table.
BootstrapAllProcessIDs(t) == DOMAIN t.procs

\* AfterSyncBootstrap, lines 352-357: the processes whose results are not final.
BootstrapProcessIDs(t) == GetProcessIDsByFinalResults(t)

BootstrapLock ==
    /\ bootPc = "idle"
    /\ ~ignoreLiveResults
    /\ synced
    /\ Locked
    /\ blockMu' = "bootstrap"
    /\ bootPc' = "locked"
    /\ UNCHANGED <<synced, appHeight, chainC, chainW, ignoreLiveResults, votePool,
                   blockUpdateProcs, blockUpdateProcVoteCounts, liveResultsProcs, blockTx,
                   txdb, db, cpc, curVote, calls, reidxPc, lastOp, preBlock,
                   txWrites>>
    /\ UnchangedStart
    /\ UnchangedOther

BootstrapRunWith(txOk, recountOk) ==
    /\ bootPc = "locked"
    /\ LET t0     == BlockTxQueries
           prcIDs == BootstrapProcessIDs(t0)
       IN  /\ db' = TxCommit(BootstrapRows(t0, prcIDs, recountOk), txOk)
           /\ liveResultsProcs' = liveResultsProcs \cup BootstrapLive(t0, prcIDs, recountOk)
    /\ txdb' = db'
    /\ blockTx' = FALSE
    /\ txWrites' = FALSE
    /\ blockMu' = "free"
    /\ bootPc' = "done"
    /\ UNCHANGED <<synced, appHeight, chainC, chainW, ignoreLiveResults, votePool,
                   blockUpdateProcs, blockUpdateProcVoteCounts, cpc, curVote, calls,
                   reidxPc, lastOp, preBlock>>
    /\ UnchangedStart
    /\ UnchangedOther

BootstrapRun(txOk) == BootstrapRunWith(txOk, TRUE)

----------------------------------------------------------------------------
(* ReindexBlocks: the whole function runs with blockMu held.                *)

BlockStoreHeight == IF appHeight > MaxHeight THEN MaxHeight ELSE appHeight

\* The ballot a vote transaction of block h carries: its overwrite counter is
\* the number of earlier blocks with a ballot of the same voter.
TxVote(tx, h) ==
    [pid |-> tx.pid, nullifier |-> tx.nullifier,
     overwrites |-> Cardinality({k \in 1..(h - 1) : tx \in blockStore[k]}),
     weight |-> WeightOf[tx.nullifier], pkg |-> <<1, 0>>, height |-> h]

TxAccount(h) == [balance |-> 7, nonce |-> h]

TxTransfer(h) == [txHash |-> "h1", height |-> h]

TxFee(h) == [from |-> "a1", txType |-> "vote", height |-> h]

\* indexTx: the rows the Event Sink writes for the payload of a transaction.
IndexTx(t, tx, h) ==
    CASE tx.type = "process"    -> CreateProcess(t, tx.pid)
      [] tx.type = "vote"       -> OnVoteRows(t, TxVote(tx, h))
      [] tx.type = "setAccount" -> CreateAccount(t, "a1", TxAccount(h))
      [] tx.type = "transfer"   -> CreateTokenTransfer(t, TxTransfer(h))
      [] tx.type = "spend"      -> CreateTokenFee(t, TxFee(h))

\* ReindexBlocks, lines 488-505: the transactions of one block.
RECURSIVE IndexTxs(_, _, _)
IndexTxs(t, txs, h) ==
    IF txs = {} THEN t
    ELSE LET tx == CHOOSE x \in txs : TRUE
         IN IndexTxs(IndexTx(t, tx, h), txs \ {tx}, h)

\* A variant that writes the block row whatever the stored row says.
ReindexBlockOverwrite(s, height, time, txOk) ==
    LET b        == [height |-> height, time |-> time]
        periodic == height % ReindexCommitEvery = 1
        d        == IF periodic /\ txOk THEN s.txdb ELSE s.db
        t        == IF periodic THEN d ELSE s.txdb
    IN  [db |-> d, txdb |-> IndexTxs(CreateBlock(t, b), blockStore[height], height)]

\* ReindexBlocks, lines 459-505: one height of the loop, on the committed rows
\* s.db and the rows s.txdb of blockTx.
ReindexBlock(s, height, time, txOk) ==
    LET b        == [height |-> height, time |-> time]
        idxRows  == {r \in s.db.blocks : r.height = height}
        periodic == height % ReindexCommitEvery = 1
        differs  == \E r \in idxRows : r.time # time
        d        == IF periodic /\ txOk THEN s.txdb ELSE s.db
        t        == IF periodic THEN d ELSE s.txdb
        t1       == IF differs THEN t ELSE CreateBlock(t, b)
    IN  [db |-> d, txdb |-> IndexTxs(t1, blockStore[height], height)]

RECURSIVE ReindexLoop(_, _, _, _)
ReindexLoop(s, height, skew, txOk) ==
    IF height > BlockStoreHeight THEN s
    ELSE ReindexLoop(ReindexBlock(s, height, BlockTime(height) + skew, txOk),
                     height + 1, skew, txOk)

ReindexBlocks(skew, txOk, lastOk) ==
    /\ reidxPc = "idle"
    /\ synced
    /\ Locked
    /\ LET s == ReindexLoop([db |-> db, txdb |-> BlockTxQueries], BlockStoreBase, skew, txOk)
       IN  db' = IF lastOk THEN s.txdb ELSE s.db
    /\ txdb' = db'
    /\ blockTx' = FALSE
    /\ txWrites' = FALSE
    /\ reidxPc' = "done"
    /\ UNCHANGED <<synced, appHeight, chainC, chainW, ignoreLiveResults, votePool,
                   blockUpdateProcs, blockUpdateProcVoteCounts, liveResultsProcs, blockMu,
                   cpc, curVote, calls, bootPc, lastOp, preBlock>>
    /\ UnchangedStart
    /\ UnchangedOther

----------------------------------------------------------------------------
(* The chain application reports that it is synced.                         *)

ChainSynced ==
    /\ ~synced
    /\ synced' = TRUE
    /\ UNCHANGED <<appHeight, chainC, chainW, ignoreLiveResults, votePool,
                   blockUpdateProcs, blockUpdateProcVoteCounts, liveResultsProcs, blockMu,
                   blockTx, txdb, db, cpc, curVote, calls, bootPc, reidxPc,
                   lastOp, preBlock, txWrites>>
    /\ UnchangedStart
    /\ UnchangedOther

----------------------------------------------------------------------------
\* The environment delivers a bounded number of callbacks.
Budget(n) == calls < n

Next ==
    \/ ChainSynced
    \/ \E pid \in Pids : OnProcess(pid)
    \/ Budget(MaxCalls) /\ \E vote \in Votes(appHeight) : OnVotePool(vote)
    \/ OnVoteWrite
    \/ Budget(MaxCalls) /\ \E pid \in Pids : OnCancel(pid)
    \/ Budget(MaxCalls) /\ \E pid \in Pids : OnProcessKeys(pid)
    \/ Budget(MaxCalls) /\ \E pid \in Pids : OnProcessStatusChange(pid, "ENDED")
    \/ Budget(MaxCalls) /\ \E pid \in Pids : OnProcessDurationChange(pid)
    \/ Budget(MaxCalls) /\ \E pid \in Pids, keyIndexOk \in BOOLEAN : OnRevealKeys(pid, keyIndexOk)
    \/ Budget(MaxCalls) /\ \E pid \in Pids : OnProcessResults(pid)
    \/ Budget(MaxCalls) /\ \E pid \in Pids : OnCensusUpdate(pid)
    \/ Budget(MaxCalls) /\ \E pids \in SUBSET Pids : OnProcessesStart(pids)
    \/ Budget(MaxCalls) /\ \E addr \in Addresses, bal \in Balances :
          OnSetAccount(addr, [balance |-> bal, nonce |-> 0])
    \/ Budget(MaxCalls) /\ OnTransferTokens("h1")
    \/ Budget(MaxCalls) /\ \E addr \in Addresses : OnSpendTokens(addr, "vote")
    \/ \E found \in BOOLEAN, txOk \in BOOLEAN : Commit(found, txOk)
    \/ Rollback
    \/ BootstrapLock
    \/ \E txOk \in BOOLEAN : BootstrapRun(txOk)
    \/ \E skew \in BlockStoreSkews, txOk \in BOOLEAN, lastOk \in BOOLEAN :
          ReindexBlocks(skew, txOk, lastOk)

Spec == Init /\ [][Next]_vars

----------------------------------------------------------------------------
(* The tally of live results: processes, ballots of every kind (valid and   *)
(* invalid packages, overwrites), blocks and the after-sync bootstrap, with  *)
(* a store that does not fail.                                              *)

NextTally ==
    \/ ChainSynced
    \/ \E pid \in Pids : OnProcess(pid)
    \/ Budget(MaxTallyCalls) /\ \E vote \in TallyVotes(appHeight) : OnVotePool(vote)
    \/ OnVoteWrite
    \/ Commit(TRUE, TRUE)
    \/ Rollback
    \/ BootstrapLock
    \/ BootstrapRun(TRUE)

SpecTally == Init /\ [][NextTally]_vars

----------------------------------------------------------------------------
(* Properties.                                                              *)

\* C1: the committed store never shows writes of the callbacks of a block in
\* progress: between two Commits the callback-written tables, as committed,
\* are what they were when the block began.
AtomicBlockVisibility == CallbackTables(db) = preBlock

\* C2: after a Rollback the committed callback-written tables equal what they
\* were before the first callback of the block.
RollbackRestoresCommitted ==
    lastOp.op = "Rollback" => CallbackTables(db) = preBlock

\* C3: a block transaction that holds writes of the block in progress is
\* ended only by a step of Commit or of Rollback.
TxEndedByCommitOrRollback ==
    [][(blockTx /\ txWrites /\ ~blockTx') =>
          (lastOp' # lastOp /\ lastOp'.op \in {"Commit", "Rollback"})]_vars

\* C4: votePool changes only in steps taken while no other thread holds
\* blockMu, the stepping callback having acquired it.
VotePoolUnderLock == [][votePool' # votePool => blockMu = "free"]_vars

VoteRows(d, pid) == {r \in d.votes : r.pid = pid}

EffectiveBallot(d, pid, n) ==
    CHOOSE r \in VoteRows(d, pid) :
        /\ r.nullifier = n
        /\ \A x \in VoteRows(d, pid) : x.nullifier = n => x.overwrites <= r.overwrites

EffectiveBallots(d, pid) ==
    {EffectiveBallot(d, pid, n) : n \in {r.nullifier : r \in VoteRows(d, pid)}}

BlockCommitted == lastOp.op = "Commit" /\ lastOp.txOk

\* The ballots of a nullifier came one per block, their overwrite counters
\* counting up from 0.
InOrder(rows) ==
    \A r \in rows :
        r.overwrites =
            Cardinality({x \in rows : x.nullifier = r.nullifier /\ x.height < r.height})

\* The effective ballots among the rows are the ballots of the chain state.
OfChainState(c, d, pid) == EffectiveBallots(d, pid) = StateVotesOf(c, pid)

\* C5: in a committed state, the stored results weight of a process with live
\* results is the sum of the weights of its effective ballots (here with all
\* of its ballots valid, each nullifier's ballots received in order, and the
\* effective ballots being those of the committed chain state).
ResultsWeightIsEffectiveWeight ==
    \A p \in DOMAIN db.procs :
        (/\ BlockCommitted
         /\ ~ignoreLiveResults
         /\ p \in liveResultsProcs
         /\ \A r \in VoteRows(db, p) : ValidPackage(r.pkg)
         /\ InOrder(VoteRows(db, p))
         /\ OfChainState(chainC, db, p))
        => db.procs[p].results.weight = SumWeights(EffectiveBallots(db, p))

\* The results of a live process that was sent the ballot b alone.
ResultsOfOnly(b) ==
    LET acc == TallyPool(EmptyChain, {b}, ZeroAcc)
    IN  ResultsAdd(ResultsSub(ZeroResults, acc.subtracted), acc.added)

\* C6: for a process live since its creation, a ballot committed in one block
\* and its overwrite committed in a later block leave the results that the
\* overwriting ballot alone leaves.
OverwriteEqualsOnlyOverwrite ==
    \A p \in DOMAIN db.procs : \A b0, b1 \in VoteRows(db, p) :
        (/\ BlockCommitted
         /\ ~ignoreLiveResults
         /\ p \in liveResultsProcs
         /\ bootPc = "idle"
         /\ VoteRows(db, p) = {b0, b1}
         /\ b0.nullifier = b1.nullifier
         /\ b0.overwrites = 0
         /\ b1.overwrites = 1
         /\ b0.height < b1.height)
        => db.procs[p].results = ResultsOfOnly(b1)

\* C7: in every committed state the stored voteCount of a process is the
\* number of distinct nullifiers among its committed vote rows.
VoteCountIsDistinctNullifiers ==
    \A p \in DOMAIN db.procs : db.procs[p].voteCount = CountDistinctNullifiers(db, p)

BlockRows(h) == {r \in db.blocks : r.height = h}

PoolKeepsHighestOverwrite ==
    (cpc = "idle" /\ bootPc = "idle") =>
        \A p \in DOMAIN votePool : \A n \in DOMAIN votePool[p] :
            \A r \in VoteRows(txdb, p) :
                (r.nullifier = n /\ r.height = appHeight)
                    => r.overwrites <= votePool[p][n].overwrites

CommitFailureSurfaced ==
    (lastOp.op = "Commit" /\ ~lastOp.txOk) => lastOp.err

----------------------------------------------------------------------------
(* Blocks in which one record fails: two processes, one of which has no row *)
(* (newEmptyProcess failed), valid and invalid ballots, overwrites, and     *)
(* processes marked for update; the store does not fail.                    *)

\* The chain is synced and live results are enabled from the start.
InitDrop ==
    /\ synced = TRUE
    /\ ignoreLiveResults = FALSE
    /\ InitIndexer

\* The ballots of the block: any ballot of p1, and first ballots of p2.
DropVotes(h) ==
    VotesOf({"p1"}, DropPackages, h)
        \cup {v \in VotesOf({"p2"}, DropPackages, h) : v.overwrites = 0 /\ ValidPackage(v.pkg)}

NextDrop ==
    \/ OnProcessWith("p1", TRUE)
    \/ OnProcessWith("p2", FALSE)
    \/ Budget(MaxTallyCalls) /\ \E vote \in DropVotes(appHeight) : OnVotePool(vote)
    \/ OnVoteWrite
    \/ Budget(MaxTallyCalls) /\ \E pid \in DropPids : OnProcessStatusChange(pid, "ENDED")
    \/ Commit(TRUE, TRUE)

SpecDrop == InitDrop /\ [][NextDrop]_vars

RECURSIVE SumDeltas(_, _, _)
SumDeltas(c, vs, res) ==
    IF vs = {} THEN res
    ELSE LET v   == CHOOSE x \in vs : TRUE
             acc == TallyVote(c, v, ZeroAcc)
         IN  SumDeltas(c, vs \ {v}, ResultsAdd(ResultsSub(res, acc.subtracted), acc.added))

\* The results of process p after the block: what was stored, plus what each
\* of its pooled ballots contributes when tallied on its own.
ResultsAfterBlock(p) ==
    LET cur == BlockTxQueries.procs[p].results
    IN  IF p \in DOMAIN votePool
        THEN SumDeltas(chainC, {votePool[p][n] : n \in DOMAIN votePool[p]}, cur)
        ELSE cur

----------------------------------------------------------------------------
(* An election that is closed: ballots, the publication of the results, the  *)
(* after-sync bootstrap and the reindex, in any order, with a store that    *)
(* does not fail.                                                            *)

NextFinal ==
    \/ ChainSynced
    \/ \E pid \in Pids : OnProcess(pid)
    \/ Budget(MaxFinalCalls) /\ \E vote \in Votes(appHeight) : OnVotePool(vote)
    \/ OnVoteWrite
    \/ Budget(MaxFinalCalls) /\ \E pid \in Pids : OnProcessResults(pid)
    \/ Commit(TRUE, TRUE)
    \/ Rollback
    \/ BootstrapLock
    \/ BootstrapRun(TRUE)
    \/ ReindexBlocks(0, TRUE, TRUE)

SpecFinal == Init /\ [][NextFinal]_vars

----------------------------------------------------------------------------
(* Start-up: New, RestoreBackup and the database they open.                 *)

\* The schemas of a database file: "none" (no table yet), "old" (migrations
\* missing) and "latest".
Schemas == {"none", "old", "latest"}

DiskFile(schema) == [exists |-> TRUE, origin |-> "disk", schema |-> schema, found |-> "unopened"]

BackupFile(schema) ==
    [exists |-> TRUE, origin |-> "backup", schema |-> schema, found |-> "unopened"]

\* copyFile failed after os.Create truncated the destination.
PartialFile == [exists |-> TRUE, origin |-> "partial", schema |-> "none", found |-> "unopened"]

\* os.Stat(idx.dbPath): nil, a not-exist error, or another error.
StatResults(f) == IF f.exists THEN {"ok", "error"} ELSE {"notExist", "error"}

\* gooseMigrationsPending: FALSE when the version cannot be read or the
\* migrations cannot be collected, else whether a migration is newer than the
\* version of the database.
GooseMigrationsPending(versionOk, collectOk, schema) ==
    IF ~versionOk THEN FALSE
    ELSE IF ~collectOk THEN FALSE
    ELSE schema # "latest"

\* startDB, lines 153-155: a second call panics.
StartDBPanics(opened) == opened

\* startDB, lines 163-211, on the file f: the file, the handle and the
\* scheduled reindex after it, and the error it returns. The file is created
\* if it does not exist; goose.Up brings the schema to the latest version.
StartDB(f, versionOk, collectOk, upOk) ==
    LET opened == IF f.exists THEN f
                  ELSE [exists |-> TRUE, origin |-> "created", schema |-> "none",
                        found |-> "unopened"]
    IN  [dbFile   |-> [opened EXCEPT !.found = opened.schema,
                                     !.schema = IF upOk THEN "latest" ELSE @],
         schedule |-> GooseMigrationsPending(versionOk, collectOk, opened.schema),
         err      |-> ~upOk]

StartOp(op, err) == [op |-> op, height |-> 0, found |-> FALSE, txOk |-> FALSE, err |-> err]

UnchangedIndexing ==
    UNCHANGED <<synced, appHeight, chainC, chainW, ignoreLiveResults, votePool,
                blockUpdateProcs, blockUpdateProcVoteCounts, liveResultsProcs, blockMu,
                blockTx, txdb, db, cpc, curVote, bootPc, preBlock, txWrites, blockStore,
                expectBackupRestore, listed, tree, tree2, replay, zk>>

\* New, lines 136-144: whether startDB is called.
NewStartsDB(statRes, expect) ==
    statRes = "ok" \/ (statRes = "notExist" /\ ~expect)

\* New(app, opts).
New(mkdirOk, statRes, versionOk, collectOk, upOk) ==
    /\ startPc = "new"
    /\ statRes \in StatResults(dbFile)
    /\ IF ~mkdirOk
       THEN /\ startPc' = "failed"
            /\ lastOp' = StartOp("New", TRUE)
            /\ UNCHANGED <<dbFile, readWriteDB, opens, reidxPc>>
       ELSE IF NewStartsDB(statRes, expectBackupRestore) /\ StartDBPanics(readWriteDB)
       THEN /\ startPc' = "panic"
            /\ lastOp' = StartOp("New", FALSE)
            /\ UNCHANGED <<dbFile, readWriteDB, opens, reidxPc>>
       ELSE IF NewStartsDB(statRes, expectBackupRestore)
       THEN LET s == StartDB(dbFile, versionOk, collectOk, upOk)
            IN  /\ dbFile' = s.dbFile
                /\ readWriteDB' = TRUE
                /\ opens' = opens + 1
                /\ reidxPc' = IF s.schedule THEN "idle" ELSE reidxPc
                /\ startPc' = IF s.err THEN "failed" ELSE "ready"
                /\ lastOp' = StartOp("New", s.err)
       ELSE /\ startPc' = "ready"
            /\ lastOp' = StartOp("New", FALSE)
            /\ UNCHANGED <<dbFile, readWriteDB, opens, reidxPc>>
    /\ UNCHANGED calls
    /\ UnchangedIndexing

\* A variant that copies the backup before looking at the database handle.
RestoreBackupFileUnchecked(opened, f, copy, backup) ==
    CASE copy = "ok"      -> backup
      [] copy = "partial" -> PartialFile
      [] copy = "noSrc"   -> f

\* RestoreBackup, lines 247-252: the file at dbPath when startDB is reached,
\* when the function panics or when copyFile fails.
RestoreBackupFile(opened, f, copy, backup) ==
    IF opened THEN f
    ELSE CASE copy = "ok"      -> backup
           [] copy = "partial" -> PartialFile
           [] copy = "noSrc"   -> f

\* RestoreBackup(path).
RestoreBackup(copy, backup, versionOk, collectOk, upOk) ==
    /\ startPc = "ready"
    /\ calls' = calls + 1
    /\ LET f == RestoreBackupFile(readWriteDB, dbFile, copy, backup)
       IN  IF readWriteDB \/ (copy = "ok" /\ StartDBPanics(readWriteDB))
           THEN /\ startPc' = "panic"
                /\ dbFile' = f
                /\ lastOp' = StartOp("RestoreBackup", FALSE)
                /\ UNCHANGED <<readWriteDB, opens, reidxPc>>
           ELSE IF copy # "ok"
           THEN /\ dbFile' = f
                /\ lastOp' = StartOp("RestoreBackup", TRUE)
                /\ UNCHANGED <<startPc, readWriteDB, opens, reidxPc>>
           ELSE LET s == StartDB(f, versionOk, collectOk, upOk)
                IN  /\ dbFile' = s.dbFile
                    /\ readWriteDB' = TRUE
                    /\ opens' = opens + 1
                    /\ reidxPc' = IF s.schedule THEN "idle" ELSE reidxPc
                    /\ lastOp' = StartOp("RestoreBackup", s.err)
                    /\ UNCHANGED startPc
    /\ UnchangedIndexing

InitStart ==
    /\ InitFields
    /\ synced = FALSE
    /\ ignoreLiveResults = FALSE
    /\ appHeight = 1
    /\ reidxPc = "none"
    /\ blockStore = NoTxs
    /\ expectBackupRestore \in BOOLEAN
    /\ dbFile \in {NoFile} \cup {DiskFile(schema) : schema \in Schemas \ {"none"}}
    /\ readWriteDB = FALSE
    /\ opens = 0
    /\ startPc = "new"

NextStart ==
    \/ \E mkdirOk \in BOOLEAN, statRes \in {"ok", "notExist", "error"},
          versionOk \in BOOLEAN, collectOk \in BOOLEAN, upOk \in BOOLEAN :
          New(mkdirOk, statRes, versionOk, collectOk, upOk)
    \/ Budget(MaxRestores) /\
          \E copy \in {"ok", "partial", "noSrc"}, schema \in Schemas \ {"none"},
             versionOk \in BOOLEAN, collectOk \in BOOLEAN, upOk \in BOOLEAN :
             RestoreBackup(copy, BackupFile(schema), versionOk, collectOk, upOk)
    \/ ChainSynced
    \/ startPc # "panic" /\ ReindexBlocks(0, TRUE, TRUE)

SpecStart == InitStart /\ [][NextStart]_vars

----------------------------------------------------------------------------
(* The block store replayed: the chain delivers the transactions of the     *)
(* blocks of a block store through the callbacks and Commit, or             *)
(* ReindexBlocks runs over the block store on an empty database.            *)

Blocks == {b \in SUBSET BlockTxs : Cardinality(b) <= MaxBlockTxs}

\* The chain creates a process once, and accepts ballots for created processes.
WellFormed(bs) ==
    /\ Cardinality({h \in DOMAIN bs : Tx("process", "n1") \in bs[h]}) <= 1
    /\ \A h \in DOMAIN bs :
          (\E tx \in bs[h] : tx.type = "vote")
             => \E k \in 1..h : Tx("process", "n1") \in bs[k]

BlockStores == {bs \in [1..MaxHeight -> Blocks] : WellFormed(bs)}

InitReindex ==
    /\ InitFields
    /\ synced = TRUE
    /\ ignoreLiveResults \in BOOLEAN
    /\ appHeight \in {1, MaxHeight + 1}
    /\ reidxPc = "idle"
    /\ blockStore \in BlockStores
    /\ expectBackupRestore = FALSE
    /\ dbFile = CreatedFile
    /\ readWriteDB = TRUE
    /\ opens = 1
    /\ startPc = "ready"

\* The callback has run for the transaction in the block in progress.
Delivered(tx) ==
    CASE tx.type = "process"    -> tx.pid \in DOMAIN chainW.procs
      [] tx.type = "vote"       -> TxVote(tx, appHeight) \in BlockTxQueries.votes
      [] tx.type = "setAccount" -> /\ "a1" \in DOMAIN BlockTxQueries.accounts
                                   /\ BlockTxQueries.accounts["a1"] = TxAccount(appHeight)
      [] tx.type = "transfer"   -> TxTransfer(appHeight) \in BlockTxQueries.transfers
      [] tx.type = "spend"      -> TxFee(appHeight) \in BlockTxQueries.fees

\* The chain runs a transaction of the block in progress.
DeliverTx(tx) ==
    /\ appHeight <= LastHeight
    /\ tx \in blockStore[appHeight]
    /\ ~Delivered(tx)
    /\ \/ tx.type = "process" /\ OnProcess(tx.pid)
       \/ tx.type = "vote" /\ OnVotePool(TxVote(tx, appHeight))
       \/ tx.type = "setAccount" /\ OnSetAccount("a1", TxAccount(appHeight))
       \/ tx.type = "transfer" /\ OnTransferTokens("h1")
       \/ tx.type = "spend" /\ OnSpendTokens("a1", "vote")

\* The chain commits the block once it has run all of its transactions.
CommitBlock ==
    /\ appHeight <= LastHeight
    /\ \A tx \in blockStore[appHeight] : Delivered(tx)
    /\ Commit(TRUE, TRUE)

NextReindex ==
    \/ \E tx \in BlockTxs : DeliverTx(tx)
    \/ OnVoteWrite
    \/ CommitBlock
    \/ ReindexBlocks(0, TRUE, TRUE)

SpecReindex == InitReindex /\ [][NextReindex]_vars

\* The rows of ReindexBlocks run on an empty database.
ReindexOnEmpty ==
    ReindexLoop([db |-> EmptyDB, txdb |-> EmptyDB], BlockStoreBase, 0, TRUE).txdb

\* The rows the reindex is to rebuild.
IndexedRows(d) ==
    [blocks    |-> d.blocks,
     results   |-> [p \in DOMAIN d.procs |->
                      [results |-> d.procs[p].results, rheight |-> d.procs[p].rheight]],
     accounts  |-> d.accounts,
     transfers |-> d.transfers,
     fees      |-> d.fees]

\* Every block of the block store was ingested through the callbacks and Commit.
LiveIngested ==
    /\ appHeight > MaxHeight
    /\ lastOp.op = "Commit"
    /\ reidxPc = "idle"

\* C15: when the chain has delivered and committed every block of the block
\* store, the committed blocks, process results, accounts, token transfers and
\* token fees are those that ReindexBlocks writes from the same block store on
\* an empty database.
ReindexEqualsLiveIngestion ==
    LiveIngested => IndexedRows(db) = IndexedRows(ReindexOnEmpty)

----------------------------------------------------------------------------
(* The recovery of live results: ballots, blocks and an after-sync bootstrap *)
(* whose recount of a process can fail.                                      *)

NextRecover ==
    \/ ChainSynced
    \/ \E pid \in Pids : OnProcess(pid)
    \/ Budget(MaxTallyCalls) /\ \E vote \in Votes(appHeight) : OnVotePool(vote)
    \/ OnVoteWrite
    \/ Commit(TRUE, TRUE)
    \/ Rollback
    \/ BootstrapLock
    \/ \E recountOk \in BOOLEAN : BootstrapRunWith(TRUE, recountOk)

SpecRecover == Init /\ [][NextRecover]_vars

\* The committed rows d2 keep what the committed rows d1 hold: every vote,
\* transfer, fee and process row is still there, the row of every block below
\* height h is still there unchanged, and no process has a smaller vote count, an older results
\* height or (its ballots being valid and received in order, one per block and
\* voter) a tally of smaller weight.
KeepsRows(d1, d2, h) ==
    /\ d1.votes \subseteq d2.votes
    /\ {r \in d1.blocks : r.height < h} \subseteq d2.blocks
    /\ d1.transfers \subseteq d2.transfers
    /\ d1.fees \subseteq d2.fees
    /\ DOMAIN d1.accounts \subseteq DOMAIN d2.accounts
    /\ DOMAIN d1.procs \subseteq DOMAIN d2.procs
    /\ \A p \in DOMAIN d1.procs :
          /\ d2.procs[p].voteCount >= d1.procs[p].voteCount
          /\ d2.procs[p].rheight >= d1.procs[p].rheight
          /\ (InOrder(VoteRows(d2, p)) /\ \A r \in VoteRows(d2, p) : ValidPackage(r.pkg))
                => d2.procs[p].results.weight >= d1.procs[p].results.weight

\* C14: no step makes the committed rows regress.
IndexMonotonicInHeight == [][KeepsRows(db, db', appHeight)]_vars

\* C16: the step that completes AfterSyncBootstrap leaves every process whose
\* committed row has finalResults = FALSE in the live-results set, a process
\* without committed ballots included.
BootstrapAddsEveryOpenProcess ==
    [][(bootPc = "locked" /\ bootPc' = "done")
          => GetProcessIDsByFinalResults(db) \subseteq liveResultsProcs']_vars

\* The tally, from zero, of a set of ballots: each valid ballot adds its weight
\* to the total and to the chosen value of every question.
TallyFromZero(vs) ==
    LET valid == {v \in vs : ValidPackage(v.pkg)}
    IN  [votes  |-> [q \in 1..VoteOpts.maxCount |->
                        [c \in 1..(VoteOpts.maxValue + 1) |->
                            SumWeights({v \in valid : v.pkg[q] + 1 = c})]],
         weight |-> SumWeights(valid)]

\* The committed rows after one more AfterSyncBootstrap, run in this state.
BootstrapAgain ==
    BootstrapRows(BlockTxQueries, BootstrapProcessIDs(BlockTxQueries), TRUE)

\* C17: the step that completes AfterSyncBootstrap leaves, for every process
\* with finalResults = FALSE, stored results equal to the tally from zero of the
\* ballots committed for it in the chain state, whatever was stored before;
\* and running the bootstrap once more at once would store the same rows.
BootstrapStoresRecount ==
    [][(bootPc = "locked" /\ bootPc' = "done") =>
          /\ \A p \in GetProcessIDsByFinalResults(db') :
                db'.procs[p].results = TallyFromZero(StateVotesOf(chainC, p))
          /\ BootstrapAgain' = db']_vars

----------------------------------------------------------------------------
(* The query surface: the listing operations over the committed rows.       *)

\* The rows of token_fees, token_transfers and accounts that the callbacks of
\* earlier blocks may have committed; id is the rowid.
FeeRows ==
    {[id |-> 1, from |-> "a1", txType |-> "vote", reference |-> "r1", height |-> 1],
     [id |-> 2, from |-> "a1", txType |-> "transfer", reference |-> "r2", height |-> 2],
     [id |-> 3, from |-> "a2", txType |-> "vote", reference |-> "r1", height |-> 2]}

TransferRows ==
    {[id |-> 1, from |-> "a1", to |-> "a2", txHash |-> "h1", height |-> 1],
     [id |-> 2, from |-> "a2", to |-> "a1", txHash |-> "h2", height |-> 1],
     [id |-> 3, from |-> "a1", to |-> "a1", txHash |-> "h3", height |-> 2]}

AccountIDs == {<<"a", "b">>, <<"b", "a">>, <<"b", "b">>}

\* accounts has no height: its rows are ordered by their account.
AccountRank(id) == IF id = <<"a", "b">> THEN 1 ELSE IF id = <<"b", "a">> THEN 2 ELSE 3

\* The tables that hold the rows of the given ids.
RowsOf(ids) ==
    [EmptyDB EXCEPT !.fees = {r \in FeeRows : r.id \in ids},
                    !.transfers = {r \in TransferRows : r.id \in ids},
                    !.accounts = [a \in {x \in AccountIDs : AccountRank(x) \in ids} |->
                                     [balance |-> 7, nonce |-> 1]]]

\* An optional filter: the zero value matches every row.
Opt(filter, value) == filter = "" \/ filter = value

\* accountID is a partial or full hex string: a substring of the account.
IsSubstr(sub, str) ==
    \E k \in 0..(Len(str) - Len(sub)) : SubSeq(str, k + 1, k + Len(sub)) = sub

\* The rows of a query in its order: descending by height, then by id.
Before(r1, r2) == r1.height > r2.height \/ (r1.height = r2.height /\ r1.id > r2.id)

RECURSIVE Ordered(_)
Ordered(rows) ==
    IF rows = {} THEN <<>>
    ELSE LET first == CHOOSE r \in rows : \A o \in rows \ {r} : Before(r, o)
         IN  <<first>> \o Ordered(rows \ {first})

\* LIMIT and OFFSET over the matching rows; every row of the page carries the
\* number of matching rows in its TotalCount column.
SearchPage(matching, limit, offset) ==
    LET all == Ordered(matching)
        n   == IF offset >= Len(all) THEN 0
               ELSE IF Len(all) - offset < limit THEN Len(all) - offset ELSE limit
    IN  [i \in 1..n |-> [row |-> all[offset + i], totalCount |-> Cardinality(matching)]]

MatchingFees(d, f) ==
    {r \in d.fees : Opt(f.txType, r.txType) /\ Opt(f.reference, r.reference)
                     /\ Opt(f.fromAccount, r.from)}

MatchingTransfers(d, f) ==
    {r \in d.transfers : /\ (f.fromOrToAccount = "" \/ f.fromOrToAccount \in {r.from, r.to})
                         /\ Opt(f.fromAccount, r.from)
                         /\ Opt(f.toAccount, r.to)}

MatchingAccounts(d, f) ==
    {[id |-> AccountRank(a), height |-> 0, account |-> a, balance |-> d.accounts[a].balance,
      nonce |-> d.accounts[a].nonce] : a \in {x \in DOMAIN d.accounts : IsSubstr(f, x)}}

SearchTokenFees(d, limit, offset, f) == SearchPage(MatchingFees(d, f), limit, offset)

SearchTokenTransfers(d, limit, offset, f) == SearchPage(MatchingTransfers(d, f), limit, offset)

SearchAccounts(d, limit, offset, f) == SearchPage(MatchingAccounts(d, f), limit, offset)

\* fmt.Errorf("invalid value: ... cannot be %d") and the error of the store.
ErrInvalidOffset == "invalid value: offset"

ErrInvalidLimit == "invalid value: limit"

ErrStore == "store"

Listing(op, limit, offset, f, rows, total, err, queried) ==
    [op |-> op, limit |-> limit, offset |-> offset, filter |-> f, rows |-> rows,
     total |-> total, err |-> err, queried |-> queried]

\* A variant that lets a limit of zero through to the query.
ListZeroLimit(op, limit, offset, f, storeOk, results) ==
    IF offset < 0 THEN Listing(op, limit, offset, f, <<>>, 0, ErrInvalidOffset, FALSE)
    ELSE IF limit < 0 THEN Listing(op, limit, offset, f, <<>>, 0, ErrInvalidLimit, FALSE)
    ELSE IF ~storeOk THEN Listing(op, limit, offset, f, <<>>, 0, ErrStore, TRUE)
    ELSE LET list == [i \in DOMAIN results |-> results[i].row]
         IN  IF Len(results) = 0 THEN Listing(op, limit, offset, f, list, 0, "nil", TRUE)
             ELSE Listing(op, limit, offset, f, list, results[1].totalCount, "nil", TRUE)

\* The body shared by TokenFeesList, TokenTransfersList and AccountList: the
\* checks of offset and limit, the query, and the total taken from the first
\* row of the page.
List(op, limit, offset, f, storeOk, results) ==
    IF offset < 0 THEN Listing(op, limit, offset, f, <<>>, 0, ErrInvalidOffset, FALSE)
    ELSE IF limit <= 0 THEN Listing(op, limit, offset, f, <<>>, 0, ErrInvalidLimit, FALSE)
    ELSE IF ~storeOk THEN Listing(op, limit, offset, f, <<>>, 0, ErrStore, TRUE)
    ELSE LET list == [i \in DOMAIN results |-> results[i].row]
         IN  IF Len(results) = 0 THEN Listing(op, limit, offset, f, list, 0, "nil", TRUE)
             ELSE Listing(op, limit, offset, f, list, results[1].totalCount, "nil", TRUE)

UnchangedByQuery ==
    UNCHANGED <<synced, appHeight, chainC, chainW, ignoreLiveResults, votePool,
                blockUpdateProcs, blockUpdateProcVoteCounts, liveResultsProcs, blockMu,
                blockTx, txdb, db, cpc, curVote, calls, bootPc, reidxPc, lastOp, preBlock,
                txWrites, blockStore, expectBackupRestore, dbFile, readWriteDB, opens,
                startPc, tree, tree2, replay, zk>>

TokenFeesList(limit, offset, txType, reference, fromAccount, storeOk) ==
    LET f == [txType |-> txType, reference |-> reference, fromAccount |-> fromAccount]
    IN  /\ listed' = List("TokenFeesList", limit, offset, f, storeOk,
                          SearchTokenFees(db, limit, offset, f))
        /\ UnchangedByQuery

TokenTransfersList(limit, offset, fromOrToAccount, fromAccount, toAccount, storeOk) ==
    LET f == [fromOrToAccount |-> fromOrToAccount, fromAccount |-> fromAccount,
              toAccount |-> toAccount]
    IN  /\ listed' = List("TokenTransfersList", limit, offset, f, storeOk,
                          SearchTokenTransfers(db, limit, offset, f))
        /\ UnchangedByQuery

AccountList(limit, offset, accountID, storeOk) ==
    /\ listed' = List("AccountList", limit, offset, accountID, storeOk,
                      SearchAccounts(db, limit, offset, accountID))
    /\ UnchangedByQuery

Limits == -1..MaxLimit

InitList ==
    /\ synced = TRUE
    /\ ignoreLiveResults = FALSE
    /\ InitFields
    /\ appHeight = 1
    /\ reidxPc = "done"
    /\ blockStore = NoTxs
    /\ expectBackupRestore = FALSE
    /\ dbFile = CreatedFile
    /\ readWriteDB = TRUE
    /\ opens = 1
    /\ startPc = "ready"

\* A block of callbacks committed: the rows the listing operations read.
CommitRowsOf(ids) ==
    /\ db = EmptyDB
    /\ db' = RowsOf(ids)
    /\ txdb' = db'
    /\ UNCHANGED <<synced, appHeight, chainC, chainW, ignoreLiveResults, votePool,
                   blockUpdateProcs, blockUpdateProcVoteCounts, liveResultsProcs, blockMu,
                   blockTx, cpc, curVote, calls, bootPc, reidxPc, lastOp, preBlock,
                   txWrites>>
    /\ UnchangedStart
    /\ UnchangedOther

NextList ==
    \/ \E ids \in SUBSET {1, 2, 3} : CommitRowsOf(ids)
    \/ \E limit \in Limits, offset \in Limits, txType \in {"", "vote"},
          fromAccount \in {"", "a1"}, storeOk \in BOOLEAN :
          TokenFeesList(limit, offset, txType, "", fromAccount, storeOk)
    \/ \E limit \in Limits, offset \in Limits, fromOrToAccount \in {"", "a2"},
          fromAccount \in {"", "a1"}, storeOk \in BOOLEAN :
          TokenTransfersList(limit, offset, fromOrToAccount, fromAccount, "", storeOk)
    \/ \E limit \in Limits, offset \in Limits, accountID \in {<<>>, <<"b">>, <<"a", "b">>},
          storeOk \in BOOLEAN :
          AccountList(limit, offset, accountID, storeOk)

SpecList == InitList /\ [][NextList]_vars

\* The rows that match the filters of the last listing call.
MatchingOf(l) ==
    CASE l.op = "TokenFeesList"      -> MatchingFees(db, l.filter)
      [] l.op = "TokenTransfersList" -> MatchingTransfers(db, l.filter)
      [] l.op = "AccountList"        -> MatchingAccounts(db, l.filter)

BadInput(l) == l.offset < 0 \/ l.limit <= 0

\* C22: a listing operation called with offset < 0 or limit <= 0 returns no
\* rows, a total of 0 and an invalid-value error without running the query,
\* and that error is not the error a failing store returns.
BadInputRejectedBeforeQuery ==
    (listed.op # "none" /\ BadInput(listed)) =>
        /\ listed.rows = <<>>
        /\ listed.total = 0
        /\ listed.err \in {ErrInvalidOffset, ErrInvalidLimit}
        /\ listed.err # ErrStore
        /\ ~listed.queried

\* AccountList was refused a limit of zero over a table that holds matching
\* rows.
ZeroLimitRefused ==
    /\ listed.op = "AccountList"
    /\ listed.limit = 0
    /\ listed.offset = 0
    /\ MatchingOf(listed) # {}
    /\ listed.err = ErrInvalidLimit

\* C23: with limit > 0 and offset >= 0, and a store that answers, the total a
\* listing operation returns is the number of rows that match its filters,
\* also when the page is empty because offset is at or past that number.
TotalCountIsMatchingRows ==
    (listed.op # "none" /\ ~BadInput(listed) /\ listed.err = "nil") =>
        listed.total = Cardinality(MatchingOf(listed))

----------------------------------------------------------------------------
(* One election followed block by block: a process with live results,       *)
(* ballots of two voters with every valid choice, overwrites included, and   *)
(* a Commit at the end of each block; the store does not fail.               *)

ElectionPackages == {<<1, 0>>, <<0, 1>>, <<1, 1>>}

InitElection ==
    /\ synced = TRUE
    /\ ignoreLiveResults = FALSE
    /\ InitFields
    /\ appHeight = 1
    /\ reidxPc = "done"
    /\ blockStore = [h \in 1..MaxElectionHeight |-> {}]
    /\ expectBackupRestore = FALSE
    /\ dbFile = CreatedFile
    /\ readWriteDB = TRUE
    /\ opens = 1
    /\ startPc = "ready"

NextElection ==
    \/ \E pid \in Pids : OnProcess(pid)
    \/ Budget(MaxElectionCalls) /\
          \E vote \in VotesWith(ElectionPackages, appHeight) : OnVotePool(vote)
    \/ OnVoteWrite
    \/ Commit(TRUE, TRUE)

SpecElection == InitElection /\ [][NextElection]_vars

Ballot(n, o, k, h) ==
    [pid |-> "p1", nullifier |-> n, overwrites |-> o, weight |-> WeightOf[n], pkg |-> k,
     height |-> h]

\* Commit(h) has just returned and the ballots delivered so far are rows.
AfterCommit(h, rows) ==
    /\ lastOp.op = "Commit"
    /\ lastOp.height = h
    /\ "p1" \in DOMAIN db.procs
    /\ db.votes = rows

Stored(votes, weight, count) ==
    /\ db.procs["p1"].results.votes = votes
    /\ db.procs["p1"].results.weight = weight
    /\ db.procs["p1"].voteCount = count

S2Ballot == Ballot("n1", 0, <<1, 0>>, 2)

S3Ballot == Ballot("n1", 1, <<0, 1>>, 3)

S4Ballot == Ballot("n2", 0, <<1, 1>>, 4)

\* C24: scenario S1 to S4. After Commit(1) of the new process the stored
\* results are zero; after Commit(2) with n1's first ballot [1,0] of weight 5
\* they are [[0,5],[5,0]], weight 5, count 1; after Commit(3) with n1's
\* overwrite [0,1] they are [[5,0],[0,5]], weight 5, count 1; after Commit(4)
\* with n2's ballot [1,1] of weight 2 they are [[5,2],[0,7]], weight 7, count 2.
ScenarioS1ToS4 ==
    /\ AfterCommit(1, {}) => Stored(<<<<0, 0>>, <<0, 0>>>>, 0, 0)
    /\ AfterCommit(2, {S2Ballot}) => Stored(<<<<0, 5>>, <<5, 0>>>>, 5, 1)
    /\ AfterCommit(3, {S2Ballot, S3Ballot}) => Stored(<<<<5, 0>>, <<0, 5>>>>, 5, 1)
    /\ AfterCommit(4, {S2Ballot, S3Ballot, S4Ballot}) => Stored(<<<<5, 2>>, <<0, 7>>>>, 7, 2)

\* Commit(4) has returned at the end of the scenario.
ScenarioS4Reached == AfterCommit(4, {S2Ballot, S3Ballot, S4Ballot})

\* The ballots of process p in the vote pool.
Pooled(p) == {votePool[p][n] : n \in DOMAIN votePool[p]}

\* C25: when the ballots of the block for a process all have a package that
\* violates its vote options, Commit leaves the stored votes and weight of the
\* process as they were, commits the vote rows of those ballots, and stores
\* the number of distinct nullifiers, theirs included, as the vote count.
InvalidBallotLeavesResults ==
    [][(lastOp' # lastOp /\ lastOp'.op = "Commit") =>
          \A p \in DOMAIN votePool \cap DOMAIN BlockTxQueries.procs :
              (\A v \in Pooled(p) : ~ValidPackage(v.pkg)) =>
                  /\ db'.procs[p].results = BlockTxQueries.procs[p].results
                  /\ Pooled(p) \subseteq db'.votes
                  /\ db'.procs[p].voteCount = CountDistinctNullifiers(db', p)]_vars

----------------------------------------------------------------------------
(* Blocks with ballots of two processes that both have a row: valid and     *)
(* invalid ballots, overwrites included; the store does not fail.           *)

NextPool ==
    \/ \E pid \in DropPids : OnProcess(pid)
    \/ Budget(MaxTallyCalls) /\
          \E vote \in VotesOf(DropPids, DropPackages, appHeight) : OnVotePool(vote)
    \/ OnVoteWrite
    \/ Commit(TRUE, TRUE)

SpecPool == InitDrop /\ [][NextPool]_vars

\* The orders in which a range loop may visit the elements of S.
Orders(S) ==
    {o \in [1..Cardinality(S) -> S] : \A i, j \in 1..Cardinality(S) : o[i] = o[j] => i = j}

\* Commit, lines 561-633, with the processes of the pool and the ballots of
\* each process visited in a given order.
RECURSIVE TallyInOrder(_, _, _)
TallyInOrder(c, order, acc) ==
    IF order = <<>> THEN acc
    ELSE TallyInOrder(c, Tail(order), TallyVote(c, Head(order), acc))

RECURSIVE CommitPoolInOrder(_, _, _, _, _)
CommitPoolInOrder(t, c, pidOrder, voteOrder, h) ==
    IF pidOrder = <<>> THEN t
    ELSE LET p   == Head(pidOrder)
             acc == TallyInOrder(c, voteOrder[p], ZeroAcc)
             t1  == IF p \notin DOMAIN t.procs THEN t
                    ELSE CommitVotesUnsafe(t, p, t.procs[p].results, acc.added,
                                           acc.subtracted, h)
         IN  CommitPoolInOrder(t1, c, Tail(pidOrder), voteOrder, h)

VoteOrders ==
    {o \in [DOMAIN votePool -> UNION {Orders(Pooled(p)) : p \in DOMAIN votePool}] :
        \A p \in DOMAIN votePool : o[p] \in Orders(Pooled(p))}

\* C26: whatever the order in which Commit visits the processes of votePool
\* and the ballots of each process, the results it stores for every process
\* are the same.
PoolOrderIrrelevant ==
    \A pidOrder \in Orders(DOMAIN votePool) : \A voteOrder \in VoteOrders :
        CommitPoolInOrder(BlockTxQueries, chainC, pidOrder, voteOrder, appHeight).procs
            = CommitVotePool(BlockTxQueries, chainC, votePool, DOMAIN votePool, appHeight).procs

\* A block is about to be committed whose pool holds, for one process, a
\* valid ballot and an invalid one.
PoolWithValidAndInvalidBallot ==
    /\ cpc = "idle"
    /\ \E p \in DOMAIN votePool \cap DOMAIN BlockTxQueries.procs :
          /\ \E v \in Pooled(p) : ValidPackage(v.pkg)
          /\ \E v \in Pooled(p) : ~ValidPackage(v.pkg)

\* C27: a step in which Rollback or Commit returns leaves votePool,
\* blockUpdateProcs and blockUpdateProcVoteCounts empty and blockTx nil,
\* whether or not the block transaction could be committed and whatever the
\* block held.
ScratchEmptyAfterBlock ==
    [][(lastOp' # lastOp /\ lastOp'.op \in {"Commit", "Rollback"}) =>
          /\ votePool' = EmptyFn
          /\ blockUpdateProcs' = {}
          /\ blockUpdateProcVoteCounts' = {}
          /\ ~blockTx']_vars

\* Rollback has returned after a block that held a ballot.
RolledBackBlockWithBallot ==
    /\ lastOp.op = "Rollback"
    /\ votePool = EmptyFn
    /\ blockUpdateProcVoteCounts = {}
    /\ ~blockTx
    /\ calls > 0
    /\ db.votes = {}
    /\ chainC.votes = EmptyFn
    /\ "p1" \in liveResultsProcs

----------------------------------------------------------------------------
(* blockTxQueries called by any code of the package: by the after-sync      *)
(* bootstrap while it holds blockMu, or by code that has not taken it.       *)

\* sync.Mutex.TryLock: succeeds when no goroutine holds the mutex.
TryLock == blockMu = "free"

QueriesOp(caller, panicked) ==
    [op |-> "blockTxQueries", height |-> 0, found |-> FALSE, txOk |-> FALSE,
     err |-> panicked, caller |-> caller]

\* blockTxQueries(), lines 313-326, called by caller: it panics when TryLock
\* succeeds, else it begins blockTx if it is nil and returns its queries.
BlockTxQueriesCall(caller) ==
    /\ startPc = "ready"
    /\ caller = "bootstrap" => bootPc = "locked"
    /\ IF TryLock
       THEN /\ startPc' = "panic"
            /\ blockMu' = caller
            /\ UNCHANGED <<blockTx, txdb>>
            /\ lastOp' = QueriesOp(caller, TRUE)
       ELSE /\ blockTx' = TRUE
            /\ txdb' = BlockTxQueries
            /\ UNCHANGED <<startPc, blockMu>>
            /\ lastOp' = QueriesOp(caller, FALSE)
    /\ UNCHANGED <<synced, appHeight, chainC, chainW, ignoreLiveResults, votePool,
                   blockUpdateProcs, blockUpdateProcVoteCounts, liveResultsProcs, db, cpc,
                   curVote, calls, bootPc, reidxPc, preBlock, txWrites, blockStore,
                   expectBackupRestore, dbFile, readWriteDB, opens>>
    /\ UnchangedOther

NextLock ==
    \/ startPc = "ready" /\ ChainSynced
    \/ startPc = "ready" /\ \E pid \in Pids : OnProcess(pid)
    \/ startPc = "ready" /\ Budget(MaxTallyCalls) /\
          \E vote \in Votes(appHeight) : OnVotePool(vote)
    \/ startPc = "ready" /\ OnVoteWrite
    \/ startPc = "ready" /\ Commit(TRUE, TRUE)
    \/ startPc = "ready" /\ BootstrapLock
    \/ startPc = "ready" /\ BootstrapRun(TRUE)
    \/ \E caller \in {"bootstrap", "other"} : BlockTxQueriesCall(caller)

SpecLock == Init /\ [][NextLock]_vars

\* C28: a call of blockTxQueries opens a block transaction only when none is
\* open, and a call by a caller that does not hold blockMu panics: it neither
\* opens nor returns a transaction.
BlockTxQueriesNeedsCallersLock ==
    [][(lastOp' # lastOp /\ lastOp'.op = "blockTxQueries") =>
          /\ (blockTx' /\ ~blockTx) => txdb' = db
          /\ blockMu # lastOp'.caller => (lastOp'.err /\ startPc' = "panic" /\ blockTx' = blockTx)]_vars

----------------------------------------------------------------------------
(* TestSnapshot (src/tree_test.go): a tree is filled, a snapshot of it is    *)
(* taken, and key-values are added to the tree and to the snapshot. The      *)
(* tree itself is not among the sources: a tree is the function from its     *)
(* keys to their values, its root stands for exactly that content, and a     *)
(* snapshot is pinned to the content the tree had when it was taken.         *)

TreeKeys == 0..MaxTreeKey

\* Tree.Root(): the root commits to the leaves, their keys with their values.
Root(t) == {<<k, t[k]>> : k \in DOMAIN t}

\* Tree.Add(k, v): a key already in the tree is an error and changes nothing.
TreeAdd(t, k, v) ==
    IF k \in DOMAIN t THEN [err |-> TRUE, tree |-> t]
    ELSE [err |-> FALSE, tree |-> Put(t, k, v)]

\* Tree.AddBatch(keys, values) with values[i] = keys[i]: the keys that could
\* not be added are skipped.
TreeAddBatch(t, keys) == [k \in DOMAIN t \cup keys |-> IF k \in DOMAIN t THEN t[k] ELSE k]

\* A variant whose snapshot keeps reading the tree it was taken from.
SnapshotLive(t) == [taken |-> TRUE, pinned |-> FALSE, leaves |-> t]

\* Tree.Snapshot(nil): a tree over the root the tree has now.
Snapshot(t) == [taken |-> TRUE, pinned |-> TRUE, leaves |-> t]

\* The leaves a snapshot reads.
LeavesOf(snap, t) == IF snap.pinned THEN snap.leaves ELSE t

TreeOp(op, err) == [op |-> op, height |-> 0, found |-> FALSE, txOk |-> FALSE, err |-> err]

UnchangedByTree ==
    UNCHANGED <<synced, appHeight, chainC, chainW, ignoreLiveResults, votePool,
                blockUpdateProcs, blockUpdateProcVoteCounts, liveResultsProcs, blockMu,
                blockTx, txdb, db, cpc, curVote, calls, bootPc, reidxPc, preBlock,
                txWrites, blockStore, expectBackupRestore, dbFile, readWriteDB, opens,
                startPc, listed, replay, zk>>

\* TestSnapshot, lines 449-460: fill the tree.
FillTree(keys) ==
    /\ tree2 = NoTree
    /\ lastOp = NoOp
    /\ tree' = TreeAddBatch(tree, keys)
    /\ lastOp' = TreeOp("tree.AddBatch", FALSE)
    /\ UNCHANGED tree2
    /\ UnchangedByTree

\* TestSnapshot, line 466: tree2, err := tree.Snapshot(nil).
TakeSnapshot ==
    /\ tree2 = NoTree
    /\ tree2' = Snapshot(tree)
    /\ lastOp' = TreeOp("tree.Snapshot", FALSE)
    /\ UNCHANGED tree
    /\ UnchangedByTree

\* TestSnapshot, lines 472-476: add k-v to the original tree.
AddToTree(k) ==
    /\ tree' = TreeAdd(tree, k, k).tree
    /\ lastOp' = TreeOp("tree.Add", TreeAdd(tree, k, k).err)
    /\ UNCHANGED tree2
    /\ UnchangedByTree

\* TestSnapshot, lines 488-489: add k-v to the snapshot.
AddToSnapshot(k) ==
    /\ tree2 # NoTree
    /\ LET r == TreeAdd(LeavesOf(tree2, tree), k, k)
       IN  /\ IF tree2.pinned
              THEN tree2' = [tree2 EXCEPT !.leaves = r.tree] /\ UNCHANGED tree
              ELSE tree' = r.tree /\ UNCHANGED tree2
           /\ lastOp' = TreeOp("tree2.Add", r.err)
    /\ UnchangedByTree

NextTree ==
    \/ \E keys \in SUBSET TreeKeys : FillTree(keys)
    \/ TakeSnapshot
    \/ \E k \in TreeKeys : AddToTree(k)
    \/ \E k \in TreeKeys : AddToSnapshot(k)

SpecTree == Init /\ [][NextTree]_vars

\* C29: once tree2 is the snapshot of tree, adding a key-value to tree changes
\* the root of tree and leaves the root of tree2 as it was, and adding a
\* key-value to tree2 leaves the root of tree as it was.
SnapshotIsolated ==
    [][(tree2 # NoTree /\ lastOp' # lastOp /\ ~lastOp'.err) =>
          /\ lastOp'.op = "tree.Add" =>
                /\ Root(tree') # Root(tree)
                /\ Root(LeavesOf(tree2', tree')) = Root(LeavesOf(tree2, tree))
          /\ lastOp'.op = "tree2.Add" => Root(tree') = Root(tree)]_vars

\* After the snapshot, one key was added to the tree and another to the
\* snapshot.
TreeAndSnapshotDiverged ==
    /\ tree2 # NoTree
    /\ lastOp.op = "tree2.Add"
    /\ ~lastOp.err
    /\ \E k \in DOMAIN tree : k \notin DOMAIN LeavesOf(tree2, tree)
    /\ \E k \in DOMAIN LeavesOf(tree2, tree) : k \notin DOMAIN tree

----------------------------------------------------------------------------
(* Blocks with overwrites whose previous ballot cannot be read: ballots of  *)
(* two processes that both have a row, and a Commit in which the reads of   *)
(* the committed ballots of some nullifiers return an error.                *)

NextUnread ==
    \/ \E pid \in DropPids : OnProcess(pid)
    \/ Budget(MaxTallyCalls) /\
          \E vote \in VotesOf(DropPids, DropPackages, appHeight) : OnVotePool(vote)
    \/ OnVoteWrite
    \/ \E failed \in SUBSET Nullifiers : CommitRead(TRUE, TRUE, failed)

SpecUnread == InitDrop /\ [][NextUnread]_vars

\* The pooled ballot v is an overwrite whose previous ballot Commit cannot
\* read: the read fails, or no ballot of its nullifier is committed.
PreviousUnreadable(v, failed) ==
    /\ v.overwrites > 0
    /\ v.nullifier \in failed \/ ~HasStateVote(chainC, v.pid, v.nullifier)

\* What the loop of Commit has accumulated for a process when it reaches one
\* of its ballots: the tally of any of the other ballots.
AccBefore(p, v, failed) ==
    {TallyPool(ReadableState(chainC, failed), vs, ZeroAcc) : vs \in SUBSET (Pooled(p) \ {v})}

\* C30: when Commit reaches a pooled ballot with overwrite counter > 0 whose
\* previously committed ballot cannot be read (the read fails or there is
\* none), it tallies the ballot as a first ballot: the ballot, its package
\* being valid, is added to the added results, the subtracted results stay
\* as they are, and the ballot is counted as a new vote, not as an overwrite;
\* when it is the only ballot of its process in the block, the stored
\* results of the process grow by it.
UnreadablePreviousCountsAsNew ==
    [][(lastOp' # lastOp /\ lastOp'.op = "Commit") =>
          \A p \in DOMAIN votePool \cap DOMAIN BlockTxQueries.procs :
              \A v \in Pooled(p) :
                  PreviousUnreadable(v, lastOp'.unread) =>
                      /\ \A acc \in AccBefore(p, v, lastOp'.unread) :
                            LET r == TallyVote(ReadableState(chainC, lastOp'.unread), v, acc)
                            IN  /\ ValidPackage(v.pkg) =>
                                       r.added = AddVote(acc.added, v.pkg, v.weight)
                                /\ r.subtracted = acc.subtracted
                                /\ r.newVotes = acc.newVotes + 1
                                /\ r.overwritedVotes = acc.overwritedVotes
                      /\ (Pooled(p) = {v} /\ ValidPackage(v.pkg)) =>
                            db'.procs[p].results
                                = AddVote(BlockTxQueries.procs[p].results, v.pkg, v.weight)]_vars

\* Commit has stored an overwrite whose previous ballot was committed and
\* counted but could not be read: the results hold both ballots.
OverwriteCountedTwice ==
    /\ lastOp.op = "Commit"
    /\ \E v \in db.votes :
          /\ v.overwrites > 0
          /\ v.height = lastOp.height
          /\ v.nullifier \in lastOp.unread
          /\ ValidPackage(v.pkg)
          /\ v.pid \in DOMAIN db.procs
          /\ db.procs[v.pid].results.weight = 2 * v.weight
          /\ \A w \in db.votes : w.pid = v.pid => w.nullifier = v.nullifier

\* The pooled ballot v has a previously committed ballot that Commit reads,
\* and its overwrite counter is not greater than that ballot's.
OverwriteNotIncreased(v) ==
    /\ v.overwrites > 0
    /\ HasStateVote(chainC, v.pid, v.nullifier)
    /\ v.overwrites <= StateVote(chainC, v.pid, v.nullifier).overwrites

\* C31: a pooled ballot whose overwrite counter is not strictly greater than
\* the counter of the previously committed ballot of its nullifier leaves the
\* added and the subtracted results of Commit as they are, and when it is the
\* only ballot of its process in the block, Commit leaves the stored results
\* of the process as they were.
StaleOverwriteSkipped ==
    [][(lastOp' # lastOp /\ lastOp'.op = "Commit") =>
          \A p \in DOMAIN votePool \cap DOMAIN BlockTxQueries.procs :
              \A v \in Pooled(p) :
                  OverwriteNotIncreased(v) =>
                      /\ \A acc \in AccBefore(p, v, {}) : TallyVote(chainC, v, acc) = acc
                      /\ Pooled(p) = {v} =>
                            db'.procs[p].results = BlockTxQueries.procs[p].results]_vars

\* A block is about to be committed whose only ballot for a process repeats
\* the overwrite counter of the committed ballot, which was counted.
StaleOverwritePooled ==
    /\ cpc = "idle"
    /\ \E p \in DOMAIN votePool \cap DOMAIN BlockTxQueries.procs :
          \E v \in Pooled(p) :
              /\ OverwriteNotIncreased(v)
              /\ Pooled(p) = {v}
              /\ ValidPackage(v.pkg)
              /\ BlockTxQueries.procs[p].results.weight = v.weight

----------------------------------------------------------------------------
(* ReindexBlocks over a block store whose blocks carry another time than    *)
(* the rows that Commit stored for their heights; Commit stores no row for  *)
(* a block it does not find.                                                *)

\* The time of the block of height h in that block store.
StoreTime(h) == BlockTime(h) + 1

NextStale ==
    \/ \E pid \in Pids : OnProcess(pid)
    \/ Budget(MaxTallyCalls) /\ \E vote \in Votes(appHeight) : OnVotePool(vote)
    \/ OnVoteWrite
    \/ \E found \in BOOLEAN : Commit(found, TRUE)
    \/ ReindexBlocks(1, TRUE, TRUE)

SpecStale == InitDrop /\ [][NextStale]_vars

BlockRowsAt(d, h) == {r \in d.blocks : r.height = h}

\* C32: when ReindexBlocks finds, for a height, a stored Block row whose time
\* differs from the time of the block in the block store, it leaves that row
\* as it is and goes on: every height of the range that had no row gets the
\* row of its block, the heights after the differing row included.
StaleBlockRowUntouched ==
    [][(reidxPc = "idle" /\ reidxPc' = "done") =>
          \A h \in BlockStoreBase..BlockStoreHeight :
              IF \E r \in BlockRowsAt(db, h) : r.time # StoreTime(h)
              THEN BlockRowsAt(db', h) = BlockRowsAt(db, h)
              ELSE BlockRowsAt(db', h) = {[height |-> h, time |-> StoreTime(h)]}]_vars

\* ReindexBlocks has run over a row with another time and, after it, over a
\* height without a row.
ReindexPassedStaleRow ==
    /\ reidxPc = "done"
    /\ \E h \in 1..MaxHeight :
          /\ BlockRowsAt(db, h) = {[height |-> h, time |-> BlockTime(h)]}
          /\ \E k \in (h + 1)..MaxHeight :
                BlockRowsAt(db, k) = {[height |-> k, time |-> StoreTime(k)]}

----------------------------------------------------------------------------
(* ReindexBlocks over blocks whose transactions are kept in order, on a     *)
(* database that holds Transaction rows: none, those of an earlier index of *)
(* the same block store, and at most one row with the hash of another       *)
(* transaction. In these behaviours blockStore[h] is the list of the        *)
(* transactions of block h.                                                 *)

OrderedTxs == {Tx("transfer", "n1"), Tx("malformed", "n1")}

\* tx.Hash(): the hash stands for the bytes of the transaction.
TxHash(tx) == <<tx.type, tx.pid, tx.nullifier>>

\* vtx.Unmarshal(tx, b.ChainID).
UnmarshalOk(tx) == tx.type # "malformed"

\* indexTx: the Transaction row of (height, index), inserted or replaced, and
\* the rows of the payload.
IndexTxRow(t, tx, h, index) ==
    [IndexTx(t, tx, h) EXCEPT !.txs = Put(@, <<h, index>>, TxHash(tx))]

\* ReindexBlocks, lines 488-505: the transactions of one block from the one
\* at position i on; committed holds the rows that readOnlyQuery reads.
RECURSIVE ReplayTxs(_, _, _, _, _)
ReplayTxs(t, committed, txs, h, i) ==
    IF i > Len(txs) THEN t
    ELSE LET tx  == txs[i]
             key == <<h, i - 1>>
         IN  IF key \in DOMAIN committed.txs /\ committed.txs[key] # TxHash(tx)
             THEN t
             ELSE IF ~UnmarshalOk(tx)
             THEN ReplayTxs(t, committed, txs, h, i + 1)
             ELSE ReplayTxs(IndexTxRow(t, tx, h, i - 1), committed, txs, h, i + 1)

\* ReindexBlocks, lines 459-505: one height of the loop.
ReplayBlock(s, height, time, txOk) ==
    LET b        == [height |-> height, time |-> time]
        idxRows  == {r \in s.db.blocks : r.height = height}
        periodic == height % ReindexCommitEvery = 1
        differs  == \E r \in idxRows : r.time # time
        d        == IF periodic /\ txOk THEN s.txdb ELSE s.db
        t        == IF periodic THEN d ELSE s.txdb
        t1       == IF differs THEN t ELSE CreateBlock(t, b)
    IN  [db |-> d, txdb |-> ReplayTxs(t1, d, blockStore[height], height, 1)]

RECURSIVE ReplayLoop(_, _, _)
ReplayLoop(s, height, txOk) ==
    IF height > BlockStoreHeight THEN s
    ELSE ReplayLoop(ReplayBlock(s, height, BlockTime(height), txOk), height + 1, txOk)

\* ReindexBlocks().
ReplayBlocks(txOk, lastOk) ==
    /\ reidxPc = "idle"
    /\ synced
    /\ Locked
    /\ LET s == ReplayLoop([db |-> db, txdb |-> BlockTxQueries], BlockStoreBase, txOk)
       IN  db' = IF lastOk THEN s.txdb ELSE s.db
    /\ txdb' = db'
    /\ blockTx' = FALSE
    /\ txWrites' = FALSE
    /\ reidxPc' = "done"
    /\ UNCHANGED <<synced, appHeight, chainC, chainW, ignoreLiveResults, votePool,
                   blockUpdateProcs, blockUpdateProcVoteCounts, liveResultsProcs, blockMu,
                   cpc, curVote, calls, bootPc, lastOp, preBlock>>
    /\ UnchangedStart
    /\ UnchangedOther

OrderedBlocks == UNION {[1..n -> OrderedTxs] : n \in 0..MaxOrderedTxs}

\* The (height, index) of the transactions of the block store bs.
TxKeys(bs) == UNION {{<<h, i - 1>> : i \in 1..Len(bs[h])} : h \in DOMAIN bs}

\* The Transaction rows of an index of the block store bs, for the keys in
\* keys, the row of the key in stale holding the hash of another transaction.
TxRowsOf(bs, keys, stale) ==
    [k \in keys |-> IF k \in stale THEN TxHash(Tx("other", "n1"))
                     ELSE TxHash(bs[k[1]][k[2] + 1])]

InitOrdered ==
    /\ InitFields
    /\ synced = TRUE
    /\ ignoreLiveResults = FALSE
    /\ appHeight = MaxHeight + 1
    /\ reidxPc = "idle"
    /\ blockStore \in [1..MaxHeight -> OrderedBlocks]
    /\ expectBackupRestore = FALSE
    /\ dbFile = CreatedFile
    /\ readWriteDB = TRUE
    /\ opens = 1
    /\ startPc = "ready"

\* The database was filled before this run: by an index of the block store,
\* or from a backup taken on another chain.
LoadTxRows(keys, stale) ==
    /\ reidxPc = "idle"
    /\ db.txs = EmptyFn
    /\ stale \subseteq keys
    /\ keys # {}
    /\ db' = [db EXCEPT !.txs = TxRowsOf(blockStore, keys, stale)]
    /\ txdb' = db'
    /\ UNCHANGED <<synced, appHeight, chainC, chainW, ignoreLiveResults, votePool,
                   blockUpdateProcs, blockUpdateProcVoteCounts, liveResultsProcs, blockMu,
                   blockTx, cpc, curVote, calls, bootPc, reidxPc, lastOp, preBlock,
                   txWrites>>
    /\ UnchangedStart
    /\ UnchangedOther

NextOrdered ==
    \/ \E all \in BOOLEAN, k \in TxKeys(blockStore) :
          LoadTxRows(IF all THEN TxKeys(blockStore) ELSE {k}, {k})
    \/ LoadTxRows(TxKeys(blockStore), {})
    \/ \E lastOk \in BOOLEAN : ReplayBlocks(TRUE, lastOk)

SpecOrdered == InitOrdered /\ [][NextOrdered]_vars

\* C33: when ReindexBlocks finds, for a transaction, a stored row of its
\* (height, index) with another hash, it leaves that row as it is, and every
\* other transaction of the block store that can be decoded, those of the
\* same block at a higher index included, has its row when ReindexBlocks has
\* committed.
TxMismatchSkipsOnlyThatTx ==
    [][(reidxPc = "idle" /\ reidxPc' = "done") =>
          \A key \in TxKeys(blockStore) :
              LET tx == blockStore[key[1]][key[2] + 1]
              IN  IF key \in DOMAIN db.txs /\ db.txs[key] # TxHash(tx)
                  THEN db'.txs[key] = db.txs[key]
                  ELSE (UnmarshalOk(tx) /\ db' # db) =>
                          (key \in DOMAIN db'.txs /\ db'.txs[key] = TxHash(tx))]_vars

----------------------------------------------------------------------------
(* ReindexBlocks height by height: the lock, the block transaction and its  *)
(* periodic commit. The rows that CreateBlock and indexTx write for a       *)
(* height are left out; replay.run counts the heights whose writes blockTx  *)
(* holds. The block stores have an empty range or the head MaxReplayHead:   *)
(* the loop over a lower head goes through the first states of the loop     *)
(* over MaxReplayHead.                                                      *)

\* BlockStore().Base() of the block stores replayed.
ReplayBases == {1, 2, ReindexCommitEvery, ReindexCommitEvery + 1, ReindexCommitEvery + 2}

MaxReplayHead == 2 * ReindexCommitEvery + MaxHeight

\* The heights at which GetBlockByHeight may return nil.
MayBeMissing(h) == h % ReindexCommitEvery \in {0, 1}

\* A variant that returns with the lock held.
ReindexReturnsLocked(lastOk) ==
    /\ reidxPc = "loop"
    /\ blockMu = "reindex"
    /\ replay.height > replay.head
    /\ db' = TxCommit(txdb, lastOk)
    /\ txdb' = db'
    /\ blockTx' = FALSE
    /\ reidxPc' = "done"
    /\ UNCHANGED <<replay, blockMu>>
    /\ UNCHANGED <<synced, appHeight, chainC, chainW, ignoreLiveResults, votePool,
                   blockUpdateProcs, blockUpdateProcVoteCounts, liveResultsProcs,
                   cpc, curVote, calls, bootPc, lastOp, preBlock, txWrites,
                   listed, tree, tree2, zk>>
    /\ UnchangedStart

\* A variant that never commits inside the loop.
ReindexCommitsNever(height) == FALSE

\* ReindexBlocks, line 462: the heights at which the loop commits blockTx.
ReindexCommits(height) == height % ReindexCommitEvery = 1

UnchangedByReplay ==
    /\ UNCHANGED <<synced, appHeight, chainC, chainW, ignoreLiveResults, votePool,
                   blockUpdateProcs, blockUpdateProcVoteCounts, liveResultsProcs,
                   cpc, curVote, calls, bootPc, lastOp, preBlock, txWrites,
                   listed, tree, tree2, zk>>
    /\ UnchangedStart

\* ReindexBlocks, lines 434-456: the lock is taken and blockTx begun.
ReindexLock(base, head) ==
    /\ reidxPc = "idle"
    /\ synced
    /\ Locked
    /\ blockMu' = "reindex"
    /\ txdb' = BlockTxQueries
    /\ blockTx' = TRUE
    /\ reidxPc' = "loop"
    /\ replay' = [height |-> base, head |-> head, run |-> 0]
    /\ UNCHANGED db
    /\ UnchangedByReplay

\* ReindexBlocks, lines 457-507: the loop body for the height replay.height.
ReindexHeight(found, txOk) ==
    /\ reidxPc = "loop"
    /\ blockMu = "reindex"
    /\ replay.height <= replay.head
    /\ ~found => MayBeMissing(replay.height)
    /\ IF found /\ ReindexCommits(replay.height)
       THEN /\ db' = TxCommit(txdb, txOk)
            /\ txdb' = db'
            /\ replay' = [replay EXCEPT !.height = @ + 1, !.run = 1]
       ELSE /\ UNCHANGED <<db, txdb>>
            /\ replay' = [replay EXCEPT !.height = @ + 1,
                                        !.run = IF found THEN @ + 1 ELSE 0]
    /\ UNCHANGED <<blockMu, blockTx, reidxPc>>
    /\ UnchangedByReplay

\* ReindexBlocks, lines 457 and 509-519: the loop is past BlockStore().Height();
\* blockTx is committed and the deferred Unlock runs.
ReindexUnlock(lastOk) ==
    /\ reidxPc = "loop"
    /\ blockMu = "reindex"
    /\ replay.height > replay.head
    /\ db' = TxCommit(txdb, lastOk)
    /\ txdb' = db'
    /\ blockTx' = FALSE
    /\ blockMu' = "free"
    /\ reidxPc' = "done"
    /\ UNCHANGED replay
    /\ UnchangedByReplay

NextReplay ==
    \/ \E base \in ReplayBases : \E head \in {base - 1, MaxReplayHead} : ReindexLock(base, head)
    \/ \E found \in BOOLEAN, txOk \in BOOLEAN : ReindexHeight(found, txOk)
    \/ \E lastOk \in BOOLEAN : ReindexUnlock(lastOk)

SpecReplay == InitDrop /\ [][NextReplay]_vars

----------------------------------------------------------------------------
(* LoadZkCircuit (src/crypto/zk/circuit/circuit.go): the artifacts are read *)
(* from LocalDir and verified; if that fails they are downloaded, stored in *)
(* LocalDir and verified. A file of LocalDir that is absent reads as Nil.   *)

Contents == {<<"a">>, <<"b">>}

\* sha256 of a content: the hash stands for the content hashed.
Sha256(content) == <<"sha256">> \o content

\* Config: the expected hash of each artifact, possibly not given.
ZkCircuitConfigs == [Artifacts -> {Nil, Sha256(<<"a">>)}]

\* What downloadFile returns for each artifact: Nil stands for its error.
Remotes == [Artifacts -> Contents \cup {Nil}]

\* A variant that accepts any content when no hash is expected.
CheckHashLax(content, expected) ==
    IF content = Nil THEN [ok |-> FALSE, err |-> TRUE]
    ELSE IF expected = Nil THEN [ok |-> TRUE, err |-> FALSE]
    ELSE [ok |-> Sha256(content) = expected, err |-> FALSE]

\* checkHash(content, expected).
CheckHash(content, expected) ==
    IF content = Nil THEN [ok |-> FALSE, err |-> TRUE]
    ELSE IF expected = Nil THEN [ok |-> FALSE, err |-> TRUE]
    ELSE [ok |-> Sha256(content) = expected, err |-> FALSE]

\* VerifiedCircuitArtifacts(): the first error ends the checks.
VerifiedCircuitArtifacts(c) ==
    LET zKey == CheckHash(c.ProvingKey, c.Config["ProvingKey"])
        vKey == CheckHash(c.VerificationKey, c.Config["VerificationKey"])
        wasm == CheckHash(c.Wasm, c.Config["Wasm"])
    IN  IF zKey.err \/ vKey.err \/ wasm.err THEN [ok |-> FALSE, err |-> TRUE]
        ELSE [ok |-> zKey.ok /\ vKey.ok /\ wasm.ok, err |-> FALSE]

\* LoadLocal(): the files are read in order; the first that cannot be read
\* ends the reads.
LoadLocal(c, local) ==
    IF local["ProvingKey"] = Nil
    THEN [err |-> TRUE, circuit |-> [c EXCEPT !.ProvingKey = Nil]]
    ELSE IF local["VerificationKey"] = Nil
    THEN [err |-> TRUE,
          circuit |-> [c EXCEPT !.ProvingKey = local["ProvingKey"], !.VerificationKey = Nil]]
    ELSE IF local["Wasm"] = Nil
    THEN [err |-> TRUE,
          circuit |-> [c EXCEPT !.ProvingKey = local["ProvingKey"],
                                !.VerificationKey = local["VerificationKey"], !.Wasm = Nil]]
    ELSE [err |-> FALSE,
          circuit |-> [c EXCEPT !.ProvingKey = local["ProvingKey"],
                                !.VerificationKey = local["VerificationKey"],
                                !.Wasm = local["Wasm"]]]

\* LoadRemote(): each artifact is downloaded and stored in LocalDir in order;
\* the first failure ends it. fail is the step that fails, if any: url.Parse
\* or MkdirAll ("mkdir"), or the storing of the files ("store").
LoadRemote(c, local, remote, fail) ==
    IF fail = "mkdir" THEN [err |-> TRUE, circuit |-> c, local |-> local]
    ELSE IF remote["ProvingKey"] = Nil \/ fail = "store"
    THEN [err |-> TRUE, circuit |-> [c EXCEPT !.ProvingKey = remote["ProvingKey"]],
          local |-> local]
    ELSE LET c1 == [c EXCEPT !.ProvingKey = remote["ProvingKey"]]
             l1 == [local EXCEPT !["ProvingKey"] = remote["ProvingKey"]]
         IN  IF remote["VerificationKey"] = Nil
             THEN [err |-> TRUE, circuit |-> [c1 EXCEPT !.VerificationKey = Nil], local |-> l1]
             ELSE LET c2 == [c1 EXCEPT !.VerificationKey = remote["VerificationKey"]]
                      l2 == [l1 EXCEPT !["VerificationKey"] = remote["VerificationKey"]]
                  IN  IF remote["Wasm"] = Nil
                      THEN [err |-> TRUE, circuit |-> [c2 EXCEPT !.Wasm = Nil], local |-> l2]
                      ELSE [err |-> FALSE,
                            circuit |-> [c2 EXCEPT !.Wasm = remote["Wasm"]],
                            local |-> [l2 EXCEPT !["Wasm"] = remote["Wasm"]]]

\* LoadZkCircuit(ctx, config): what it returns, the files it leaves in
\* LocalDir and whether it called LoadRemote.
LoadZkCircuit(config, local, remote, fail) ==
    LET circuit == [ProvingKey |-> Nil, VerificationKey |-> Nil, Wasm |-> Nil,
                    Config |-> config]
        loaded  == LoadLocal(circuit, local)
        first   == VerifiedCircuitArtifacts(loaded.circuit)
        fetched == LoadRemote(loaded.circuit, local, remote, fail)
        second  == VerifiedCircuitArtifacts(fetched.circuit)
    IN  IF ~loaded.err /\ ~first.err /\ first.ok
        THEN [circuit |-> loaded.circuit, err |-> FALSE, local |-> local, fetched |-> FALSE]
        ELSE IF fetched.err \/ second.err \/ ~second.ok
        THEN [circuit |-> NoCircuit, err |-> TRUE, local |-> fetched.local, fetched |-> TRUE]
        ELSE [circuit |-> fetched.circuit, err |-> FALSE, local |-> fetched.local,
              fetched |-> TRUE]

UnchangedByZk ==
    /\ UNCHANGED <<synced, appHeight, chainC, chainW, ignoreLiveResults, votePool,
                   blockUpdateProcs, blockUpdateProcVoteCounts, liveResultsProcs, blockMu,
                   blockTx, txdb, db, cpc, curVote, calls, bootPc, reidxPc, lastOp,
                   preBlock, txWrites, listed, tree, tree2, replay>>
    /\ UnchangedStart

\* A call of LoadZkCircuit, once the caller has taken the result of the last.
LoadZkCircuitCall(config, remote, fail) ==
    /\ ~zk.called
    /\ LET r == LoadZkCircuit(config, zk.local, remote, fail)
       IN  zk' = [local |-> r.local, called |-> TRUE, fetched |-> r.fetched,
                  remote |-> IF r.fetched THEN remote ELSE NoZk.remote,
                  config |-> config, circuit |-> r.circuit, err |-> r.err]
    /\ UnchangedByZk

\* The caller takes what LoadZkCircuit returned; the files stay in LocalDir.
CircuitTaken ==
    /\ zk.called
    /\ zk' = [NoZk EXCEPT !.local = zk.local]
    /\ UnchangedByZk

NextZk ==
    \/ \E config \in ZkCircuitConfigs, remote \in Remotes,
          fail \in {"none", "mkdir", "store"} : LoadZkCircuitCall(config, remote, fail)
    \/ CircuitTaken

SpecZk == InitDrop /\ [][NextZk]_vars

\* The circuit c holds the three artifacts and the hash of each is the one
\* its Config expects.
ArtifactsVerified(c) ==
    /\ c # NoCircuit
    /\ Sha256(c.ProvingKey) = c.Config["ProvingKey"]
    /\ Sha256(c.VerificationKey) = c.Config["VerificationKey"]
    /\ Sha256(c.Wasm) = c.Config["Wasm"]

\* C35: LoadZkCircuit returns either an error and no circuit, or no error and
\* a circuit whose proving key, verification key and wasm each hash to the
\* hash its Config expects; when it downloads, a failed download, a missing
\* expected hash or a downloaded artifact with another hash makes it return
\* the error.
LoadZkCircuitVerifies ==
    zk.called =>
        /\ zk.err <=> zk.circuit = NoCircuit
        /\ ~zk.err => (ArtifactsVerified(zk.circuit) /\ zk.circuit.Config = zk.config)
        /\ (zk.fetched /\ \E a \in Artifacts :
                \/ zk.remote[a] = Nil
                \/ zk.config[a] = Nil
                \/ Sha256(zk.remote[a]) # zk.config[a]) => zk.err

\* LoadZkCircuit has downloaded the artifacts, stored them in LocalDir and
\* returned the circuit.
DownloadedCircuitReturned ==
    /\ zk.called
    /\ zk.fetched
    /\ ~zk.err
    /\ ArtifactsVerified(zk.circuit)
    /\ zk.local = zk.remote

----------------------------------------------------------------------------
(* The blocks around a height that is a multiple of OptimizeEvery: the      *)
(* Indexer was started on a chain that is one block short of it.            *)

InitOptimize ==
    /\ InitFields
    /\ synced = TRUE
    /\ ignoreLiveResults = FALSE
    /\ appHeight = OptimizeEvery - 1
    /\ reidxPc = "idle"
    /\ blockStore = [h \in 1..(OptimizeEvery + MaxHeight - 1) |-> {}]
    /\ expectBackupRestore = FALSE
    /\ dbFile = CreatedFile
    /\ readWriteDB = TRUE
    /\ opens = 1
    /\ startPc = "ready"

NextOptimize ==
    \/ \E pid \in Pids : OnProcess(pid)
    \/ Budget(MaxTallyCalls) /\ \E vote \in Votes(appHeight) : OnVotePool(vote)
    \/ OnVoteWrite
    \/ Budget(MaxTallyCalls) /\ \E pid \in Pids : OnProcessStatusChange(pid, "ENDED")
    \/ \E found \in BOOLEAN, txOk \in BOOLEAN : Commit(found, txOk)
    \/ Rollback

SpecOptimize == InitOptimize /\ [][NextOptimize]_vars

\* C36: Commit returns an error only at a height that is a multiple of
\* OptimizeEvery (1000), and when it does, blockTx.Commit() has run: blockTx
\* is nil, the rows of the block are the committed ones unless the store
\* refused them, and votePool, blockUpdateProcs and
\* blockUpdateProcVoteCounts are empty.
CommitErrorOnlyFromOptimize ==
    [][(lastOp' # lastOp /\ lastOp'.op = "Commit" /\ lastOp'.err) =>
          /\ lastOp'.height % OptimizeEvery = 0
          /\ ~blockTx'
          /\ lastOp'.txOk =>
                db' = CommitRows(lastOp'.found,
                                 [height |-> appHeight, time |-> BlockTime(appHeight)])
          /\ votePool' = EmptyFn
          /\ blockUpdateProcs' = {}
          /\ blockUpdateProcVoteCounts' = {}]_vars

\* Commit has returned the optimizer's error for a block whose ballot it
\* committed.
CommitFailedAfterStoringBlock ==
    /\ lastOp.op = "Commit"
    /\ lastOp.err
    /\ ~blockTx
    /\ votePool = EmptyFn
    /\ \E v \in db.votes : v.height = lastOp.height

----------------------------------------------------------------------------
(* The holders of blockMu under fair scheduling: a goroutine that holds the *)
(* lock, or that waits for a lock that is free, takes its next step.        *)
(* ReindexBlocks runs height by height over block stores of base 1 and a    *)
(* head up to MaxHeight, beside the callbacks, Commit, Rollback and         *)
(* AfterSyncBootstrap.                                                      *)

NextRelease ==
    \/ \E pid \in Pids : OnProcess(pid)
    \/ Budget(MaxCalls) /\ \E vote \in Votes(appHeight) : OnVotePool(vote)
    \/ OnVoteWrite
    \/ Commit(TRUE, TRUE)
    \/ Rollback
    \/ BootstrapLock
    \/ \E txOk \in BOOLEAN, recountOk \in BOOLEAN : BootstrapRunWith(txOk, recountOk)
    \/ \E head \in 0..MaxHeight : ReindexLock(1, head)
    \/ \E found \in BOOLEAN, txOk \in BOOLEAN : ReindexHeight(found, txOk)
    \/ \E lastOk \in BOOLEAN : ReindexUnlock(lastOk)

SpecRelease ==
    /\ InitDrop
    /\ [][NextRelease]_vars
    /\ WF_vars(\E txOk \in BOOLEAN, recountOk \in BOOLEAN : BootstrapRunWith(txOk, recountOk))
    /\ WF_vars(\E found \in BOOLEAN, txOk \in BOOLEAN : ReindexHeight(found, txOk))
    /\ WF_vars(\E lastOk \in BOOLEAN : ReindexUnlock(lastOk))
    /\ WF_vars(OnVoteWrite)

\* C37: whenever blockMu is held it is released again; ReindexBlocks, once in
\* its loop over a finite range of heights, ends with the lock released and no
\* block transaction open; and a callback that waits for the lock goes on.
BlockMuAlwaysReleased ==
    /\ (blockMu # "free") ~> (blockMu = "free")
    /\ (reidxPc = "loop") ~> (reidxPc = "done" /\ blockMu = "free" /\ ~blockTx)
    /\ (cpc = "OnVote") ~> (cpc = "idle")

\* ReindexBlocks holds the lock with heights left to replay while OnVote
\* waits for it.
CallbackWaitsForReindex ==
    /\ blockMu = "reindex"
    /\ replay.height < replay.head
    /\ cpc = "OnVote"

\* C38: when Commit reaches a pooled ballot with overwrite counter 0 it
\* tallies it as it would over an empty chain state: the subtracted results
\* and the number of overwrites stay as they are, the ballot is counted as a
\* new vote and, its package being valid, is added to the added results, also
\* when a ballot of its nullifier is committed; when it is the only ballot of
\* its process in the block, the stored results of the process grow by it.
FirstBallotNeverSubtracts ==
    [][(lastOp' # lastOp /\ lastOp'.op = "Commit") =>
          \A p \in DOMAIN votePool \cap DOMAIN BlockTxQueries.procs :
              \A v \in Pooled(p) :
                  v.overwrites = 0 =>
                      /\ \A acc \in AccBefore(p, v, {}) :
                            LET r == TallyVote(chainC, v, acc)
                            IN  /\ r = TallyVote(EmptyChain, v, acc)
                                /\ r.subtracted = acc.subtracted
                                /\ r.overwritedVotes = acc.overwritedVotes
                                /\ r.newVotes = acc.newVotes + 1
                                /\ ValidPackage(v.pkg) =>
                                       r.added = AddVote(acc.added, v.pkg, v.weight)
                      /\ (Pooled(p) = {v} /\ ValidPackage(v.pkg)) =>
                            db'.procs[p].results
                                = AddVote(BlockTxQueries.procs[p].results, v.pkg, v.weight)]_vars

\* Commit has stored a ballot with overwrite counter 0 of a nullifier whose
\* ballot of an earlier block was committed and counted: the results hold
\* both ballots.
FirstBallotCountedAgain ==
    /\ lastOp.op = "Commit"
    /\ \E v \in db.votes :
          /\ v.overwrites = 0
          /\ v.height = lastOp.height
          /\ ValidPackage(v.pkg)
          /\ v.pid \in DOMAIN db.procs
          /\ HasStateVote(chainC, v.pid, v.nullifier)
          /\ db.procs[v.pid].results.weight = 2 * v.weight
          /\ \A w \in db.votes : w.pid = v.pid => w.nullifier = v.nullifier

----------------------------------------------------------------------------
(* Ballots for processes that are live and for processes that have ended,   *)
(* on an Indexer with and without live results.                             *)

NextLive ==
    \/ ChainSynced
    \/ \E pid \in DropPids : OnProcess(pid)
    \/ Budget(MaxTallyCalls) /\
          \E vote \in VotesOf(DropPids, Packages, appHeight) : OnVotePool(vote)
    \/ OnVoteWrite
    \/ Budget(MaxTallyCalls) /\ \E pid \in DropPids : OnProcessStatusChange(pid, "ENDED")
    \/ BootstrapLock
    \/ BootstrapRun(TRUE)
    \/ Commit(TRUE, TRUE)

SpecLive == Init /\ [][NextLive]_vars

\* The ballots that votePool holds.
PooledBallots(pool) ==
    UNION {{<<p, n, pool[p][n]>> : n \in DOMAIN pool[p]} : p \in DOMAIN pool}

\* C39: OnVote leaves votePool as it is when the Indexer ignores live results
\* or the process of the ballot is not in liveResultsProcs; a ballot enters
\* votePool only on an Indexer with live results and for a process that is in
\* liveResultsProcs at that moment; votePool is empty in every state of an
\* Indexer that ignores live results.
PoolHoldsLiveBallotsOnly ==
    /\ [](ignoreLiveResults => votePool = EmptyFn)
    /\ [][/\ (cpc' = "OnVote" /\ cpc = "idle"
                 /\ (ignoreLiveResults \/ curVote'.pid \notin liveResultsProcs))
              => votePool' = votePool
          /\ \A b \in PooledBallots(votePool') \ PooledBallots(votePool) :
                 ~ignoreLiveResults /\ b[1] \in liveResultsProcs]_vars

\* OnVote has received a ballot for a process in liveResultsProcs on an
\* Indexer that ignores live results, and pooled nothing.
LiveBallotNotPooled ==
    /\ cpc = "OnVote"
    /\ ignoreLiveResults
    /\ curVote.pid \in liveResultsProcs
    /\ votePool = EmptyFn

----------------------------------------------------------------------------
(* The write path on the Indexer that New returns: New subscribes the       *)
(* Indexer to the events of the chain whether or not it has opened the      *)
(* database, so the callbacks, Commit, AfterSyncBootstrap and ReindexBlocks *)
(* run before as well as after RestoreBackup.                               *)

\* The callers of blockTxQueries on the write path.
WritePathCallers == {"callback", "Commit", "bootstrap", "reindex"}

\* blockTxQueries(), lines 317-321, called under blockMu by a write-path
\* operation when blockTx is nil and readWriteDB is nil: Begin dereferences
\* the nil handle and the goroutine panics; the deferred Unlock of the
\* operation runs as the panic unwinds.
BeginOnUnopened(caller) ==
    /\ startPc = "ready"
    /\ ~readWriteDB
    /\ ~blockTx
    /\ CASE caller = "callback"  -> cpc = "OnVote" /\ Locked
         [] caller = "Commit"    -> cpc = "idle" /\ Locked
         [] caller = "bootstrap" -> bootPc = "locked"
         [] caller = "reindex"   -> reidxPc = "idle" /\ synced /\ Locked
    /\ startPc' = "panic"
    /\ blockMu' = "free"
    /\ lastOp' = QueriesOp(caller, TRUE)
    /\ UNCHANGED <<synced, appHeight, chainC, chainW, ignoreLiveResults, votePool,
                   blockUpdateProcs, blockUpdateProcVoteCounts, liveResultsProcs, blockTx,
                   txdb, db, cpc, curVote, calls, bootPc, reidxPc, preBlock, txWrites,
                   blockStore, expectBackupRestore, dbFile, readWriteDB, opens>>
    /\ UnchangedOther

\* New has returned the Indexer and the database has been opened.
Opened == startPc = "ready" /\ readWriteDB

NextUnopened ==
    \/ \E mkdirOk \in BOOLEAN, statRes \in {"ok", "notExist", "error"}, upOk \in BOOLEAN :
          New(mkdirOk, statRes, TRUE, TRUE, upOk)
    \/ Budget(MaxRestores) /\
          \E copy \in {"ok", "noSrc"} :
             RestoreBackup(copy, BackupFile("latest"), TRUE, TRUE, TRUE)
    \/ startPc = "ready" /\ ChainSynced
    \/ Opened /\ \E pid \in Pids : OnProcess(pid)
    \/ startPc = "ready" /\ Budget(MaxRestores) /\
          \E vote \in Votes(appHeight) : OnVotePool(vote)
    \/ Opened /\ OnVoteWrite
    \/ Opened /\ Commit(TRUE, TRUE)
    \/ startPc = "ready" /\ BootstrapLock
    \/ Opened /\ BootstrapRun(TRUE)
    \/ Opened /\ ReindexBlocks(0, TRUE, TRUE)
    \/ \E caller \in WritePathCallers : BeginOnUnopened(caller)

SpecUnopened == InitStart /\ [][NextUnopened]_vars

\* C40: whenever an Event Sink callback, Commit, AfterSyncBootstrap or
\* ReindexBlocks calls blockTxQueries with no block transaction open, so that
\* it begins one, the database has been opened.
WritePathBeginsOnOpenedOnly ==
    [][((blockTx' /\ ~blockTx)
            \/ (lastOp' # lastOp /\ lastOp'.op = "blockTxQueries" /\ ~blockTx))
          => readWriteDB]_vars

\* C18: a call of RestoreBackup made after the database was opened panics and
\* leaves the file at dbPath and the handle alone; a call that returns without
\* error was made while the database had never been opened; and the database
\* is opened at most once.
RestoreBackupOnlyBeforeOpen ==
    [][/\ (lastOp'.op = "RestoreBackup" /\ calls' # calls) =>
            /\ readWriteDB => (startPc' = "panic" /\ dbFile' = dbFile /\ opens' = opens)
            /\ (startPc' = "ready" /\ ~lastOp'.err) => (~readWriteDB /\ opens = 0)
       /\ opens' <= 1]_vars

\* The database that New opened on the file found on disk was refused a
\* restore: the call panicked and the file is the one New opened.
RestoreRefusedAfterOpen ==
    /\ lastOp.op = "RestoreBackup"
    /\ startPc = "panic"
    /\ readWriteDB
    /\ opens = 1
    /\ dbFile.origin = "disk"

\* C19: when New returns an Indexer, the database is open if and only if the
\* file existed or ExpectBackupRestore is false; with the file absent and the
\* flag set it is unopened, and with the file present the flag changes nothing.
NewOpensUnlessRestoreExpected ==
    [][(lastOp'.op = "New" /\ startPc = "new" /\ startPc' = "ready") =>
          (readWriteDB' <=> (dbFile.exists \/ ~expectBackupRestore))]_vars

\* C20: a step in which startDB opens the database and returns no error
\* schedules ReindexBlocks if and only if the file it opened lacked migrations,
\* and ReindexBlocks replays the block store only once the chain is synced.
ReindexScheduledIffMigrationsPending ==
    [][/\ (opens' = opens + 1 /\ ~lastOp'.err) =>
            ((reidxPc' = "idle") <=> (dbFile'.found # "latest"))
       /\ (reidxPc = "idle" /\ reidxPc' = "done") => synced]_vars

\* C21: when goose.Up fails in the startDB that New calls, New returns an
\* error and no Indexer (the instance is not added as a listener of the chain
\* state), and ReindexBlocks never replays the block store on that instance.
FailedStartDoesNoWork ==
    [][/\ (lastOp'.op = "New" /\ startPc = "new" /\ opens' = opens + 1 /\ lastOp'.err) =>
            startPc' = "failed"
       /\ startPc = "failed" => ~(reidxPc = "idle" /\ reidxPc' = "done")]_vars
====
